---- MODULE Spec2Model ----
(***************************************************************************)
(* Model of the disinformation-monitoring service: the fact-checkability   *)
(* pipeline (excerpt extraction, sentence scoring, pre-filter scoring,     *)
(* status classification) and the extraction / submission collaborators    *)
(* that act on its results.                                                *)
(*                                                                         *)
(* Texts are modelled as sets of clauses taken from a fixed vocabulary of  *)
(* Portuguese news fragments.  For every clause the tables below record    *)
(* what the source's keyword tables and compiled patterns find in it, so   *)
(* the scoring operators run the code's own tests (kw in text,             *)
(* PATTERN.search(text), len(text)) on those texts.                        *)
(***************************************************************************)
EXTENDS Integers, FiniteSets, Sequences, TLC

(* The clauses texts are built from. Each is a fragment of Portuguese news text with no
   sentence delimiter inside:
     c_ele       Ele voltou
     c_min_que   O ministro afirmou que a taxa caiu
     c_anun_que  O prefeito anunciou que a ponte nova caiu
     c_pct       em 12% no ano
     c_brl       com R$ 500 milhoes
     c_usd       com US$ 30 bilhoes
     c_large     em 3 bilhoes
     c_date      em 5 de maio
     c_num       com 7 votos
     c_quote     "vamos manter todo o valor previsto"
     c_segundo   Segundo o IBGE, o desemprego recuou
     c_acordo    De acordo com o IBGE, a renda subiu
     c_conforme  Conforme o boletim, o surto recuou
     c_colon     Ministro garante: o valor fica mantido
     c_action    Governo anunciou o novo programa
     c_anvisa    a Anvisa emitiu um alerta
     c_social    a pobreza rural
     c_science   um estudo novo
     c_spec      talvez ocorra
     c_spec2     possivelmente amanha
     c_cond      o valor poderia mudar
     c_vague     alguns setores
     c_vague2    muitos e diversos casos
     c_guide     deve-se manter
     c_noise     clique aqui para saber mais
     c_ent1      um filme novo
     c_ent2      o cantor e o disco
     c_ent3      a atriz da novela e o cantor
     c_relator   o relator do caso
     c_sport2    o gol do jogador
     c_sport3    o gol do jogador na arena
     c_doping    um caso de doping
     c_opinion   acho que foi bonito
     c_names     Ana Lima e Rui Melo
     c_pad40     na tarde de ontem no centro da cidade de
     c_pad100    durante a tarde de ontem no centro da cidade e ainda no deco... (101 chars)
     c_pad230    durante a tarde de ontem no centro da cidade e ainda no deco... (239 chars)
*)
Vocabulary ==
    { "c_ele", "c_min_que", "c_anun_que", "c_pct", "c_brl", "c_usd", "c_large",
      "c_date", "c_num", "c_quote", "c_segundo", "c_acordo", "c_conforme", "c_colon",
      "c_action", "c_anvisa", "c_social", "c_science", "c_spec", "c_spec2", "c_cond",
      "c_vague", "c_vague2", "c_guide", "c_noise", "c_ent1", "c_ent2", "c_ent3",
      "c_relator", "c_sport2", "c_sport3", "c_doping", "c_opinion", "c_names",
      "c_pad40", "c_pad100", "c_pad230" }

\* len(clause)
ClauseLen ==
    "c_ele" :> 10 @@ "c_min_que" :> 34 @@ "c_anun_que" :> 41 @@ "c_pct" :> 13 @@ "c_brl" :> 18 @@
    "c_usd" :> 18 @@ "c_large" :> 12 @@ "c_date" :> 12 @@ "c_num" :> 11 @@ "c_quote" :> 36 @@
    "c_segundo" :> 35 @@ "c_acordo" :> 35 @@ "c_conforme" :> 34 @@ "c_colon" :> 38 @@
    "c_action" :> 32 @@ "c_anvisa" :> 25 @@ "c_social" :> 15 @@ "c_science" :> 14 @@
    "c_spec" :> 13 @@ "c_spec2" :> 20 @@ "c_cond" :> 21 @@ "c_vague" :> 14 @@ "c_vague2" :> 23 @@
    "c_guide" :> 14 @@ "c_noise" :> 27 @@ "c_ent1" :> 13 @@ "c_ent2" :> 18 @@ "c_ent3" :> 28 @@
    "c_relator" :> 17 @@ "c_sport2" :> 16 @@ "c_sport3" :> 25 @@ "c_doping" :> 17 @@
    "c_opinion" :> 19 @@ "c_names" :> 19 @@ "c_pad40" :> 40 @@ "c_pad100" :> 101 @@
    "c_pad230" :> 239

\* the place of a clause in a text: the clauses of a text are written in this order, one space between
ClausePosition ==
    "c_ele" :> 1 @@ "c_min_que" :> 2 @@ "c_anun_que" :> 3 @@ "c_pct" :> 4 @@ "c_brl" :> 5 @@
    "c_usd" :> 6 @@ "c_large" :> 7 @@ "c_date" :> 8 @@ "c_num" :> 9 @@ "c_quote" :> 10 @@
    "c_segundo" :> 11 @@ "c_acordo" :> 12 @@ "c_conforme" :> 13 @@ "c_colon" :> 14 @@
    "c_action" :> 15 @@ "c_anvisa" :> 16 @@ "c_social" :> 17 @@ "c_science" :> 18 @@
    "c_spec" :> 19 @@ "c_spec2" :> 20 @@ "c_cond" :> 21 @@ "c_vague" :> 22 @@ "c_vague2" :> 23 @@
    "c_guide" :> 24 @@ "c_noise" :> 25 @@ "c_ent1" :> 26 @@ "c_ent2" :> 27 @@ "c_ent3" :> 28 @@
    "c_relator" :> 29 @@ "c_sport2" :> 30 @@ "c_sport3" :> 31 @@ "c_doping" :> 32 @@
    "c_opinion" :> 33 @@ "c_names" :> 34 @@ "c_pad40" :> 35 @@ "c_pad100" :> 36 @@
    "c_pad230" :> 37

\* the keywords of the tables below that occur in the lowercased clause (kw in text)
Terms ==
    [c \in Vocabulary |->
        CASE c = "c_min_que" -> {"afirmou", "ministro"}
          [] c = "c_anun_que" -> {"anunciou", "prefeito"}
          [] c = "c_segundo" -> {"desemprego", "mp", "segundo"}
          [] c = "c_acordo" -> {"de acordo com"}
          [] c = "c_conforme" -> {"conforme", "surto"}
          [] c = "c_colon" -> {"garante", "ministro"}
          [] c = "c_action" -> {"anunciou", "governo"}
          [] c = "c_anvisa" -> {"anvisa", "visa"}
          [] c = "c_social" -> {"pobreza"}
          [] c = "c_science" -> {"estudo"}
          [] c = "c_spec" -> {"talvez"}
          [] c = "c_spec2" -> {"possivelmente"}
          [] c = "c_vague" -> {"alguns"}
          [] c = "c_vague2" -> {"diversos", "muitos"}
          [] c = "c_guide" -> {"deve-se"}
          [] c = "c_noise" -> {"clique aqui", "para"}
          [] c = "c_ent1" -> {"filme"}
          [] c = "c_ent2" -> {"cantor", "disco"}
          [] c = "c_ent3" -> {"atriz", "cantor", "novela"}
          [] c = "c_relator" -> {"ator"}
          [] c = "c_sport2" -> {"gol", "jogador"}
          [] c = "c_sport3" -> {"arena", "gol", "jogador"}
          [] c = "c_doping" -> {"doping"}
          [] OTHER -> {}]

\* the ambiguous celebrity words found as whole words (re.search(rf'\b{kw}\b', text))
WordBounded ==
    [c \in Vocabulary |->
        CASE c = "c_ent3" -> {"atriz"}
          [] OTHER -> {}]

\* the compiled patterns of pre_filter.py that match the lowercased clause
PreFilterMatch ==
    [c \in Vocabulary |->
        CASE c = "c_pct" -> {"NUMBER_PATTERN", "PERCENTAGE_PATTERN"}
          [] c = "c_brl" -> {"CURRENCY_BRL_PATTERN", "LARGE_NUMBER_PATTERN", "NUMBER_PATTERN"}
          [] c = "c_usd" -> {"CURRENCY_USD_PATTERN", "LARGE_NUMBER_PATTERN", "NUMBER_PATTERN"}
          [] c = "c_large" -> {"LARGE_NUMBER_PATTERN", "NUMBER_PATTERN"}
          [] c = "c_date" -> {"DATE_PATTERN", "NUMBER_PATTERN"}
          [] c = "c_num" -> {"NUMBER_PATTERN"}
          [] c = "c_quote" -> {"QUOTE"}
          [] OTHER -> {}]

\* the compiled patterns of claim_extractor.py that match the clause
ClaimMatch ==
    [c \in Vocabulary |->
        CASE c = "c_min_que" -> {"PATTERN_DATA_AFFIRMATION", "PATTERN_ENTITY_VERB_QUE"}
          [] c = "c_anun_que" -> {"PATTERN_DATA_AFFIRMATION", "PATTERN_ENTITY_ACTION", "PATTERN_ENTITY_VERB_QUE"}
          [] c = "c_pct" -> {"NUMBER_PATTERN", "PERCENTAGE_PATTERN"}
          [] c = "c_brl" -> {"CURRENCY_BRL_PATTERN", "LARGE_NUMBER_PATTERN", "NUMBER_PATTERN"}
          [] c = "c_usd" -> {"CURRENCY_USD_PATTERN", "NUMBER_PATTERN"}
          [] c = "c_large" -> {"NUMBER_PATTERN"}
          [] c = "c_date" -> {"DATE_PATTERN", "NUMBER_PATTERN"}
          [] c = "c_num" -> {"NUMBER_PATTERN"}
          [] c = "c_quote" -> {"PATTERN_DIRECT_QUOTE"}
          [] c = "c_segundo" -> {"PATTERN_SEGUNDO"}
          [] c = "c_acordo" -> {"PATTERN_DATA_AFFIRMATION", "PATTERN_DE_ACORDO_COM"}
          [] c = "c_conforme" -> {"PATTERN_CONFORME"}
          [] c = "c_colon" -> {"PATTERN_ENTITY_VERB_COLON"}
          [] c = "c_action" -> {"PATTERN_ENTITY_ACTION"}
          [] c = "c_noise" -> {"NOISE_PATTERNS"}
          [] c = "c_opinion" -> {"opinion_patterns"}
          [] OTHER -> {}]

\* for each attribution pattern that matches the clause: match.start() of its claim group
ClaimStart ==
    [c \in Vocabulary |->
        CASE c = "c_min_que" -> ("PATTERN_ENTITY_VERB_QUE" :> 23)
          [] c = "c_anun_que" -> ("PATTERN_ENTITY_VERB_QUE" :> 24 @@ "PATTERN_ENTITY_ACTION" :> 20)
          [] c = "c_segundo" -> ("PATTERN_SEGUNDO" :> 16)
          [] c = "c_acordo" -> ("PATTERN_DE_ACORDO_COM" :> 22)
          [] c = "c_conforme" -> ("PATTERN_CONFORME" :> 20)
          [] c = "c_colon" -> ("PATTERN_ENTITY_VERB_COLON" :> 18)
          [] c = "c_action" -> ("PATTERN_ENTITY_ACTION" :> 17)
          [] OTHER -> <<>>]

\* len(CONDITIONAL_PATTERN.findall(clause))
ConditionalCount ==
    [c \in Vocabulary |->
        CASE c = "c_cond" -> 1
          [] OTHER -> 0]

\* capitalised multi-word sequences in the clause as written (none survive lowercasing)
ProperNounCount ==
    [c \in Vocabulary |->
        CASE c = "c_names" -> 2
          [] OTHER -> 0]

\* clauses that open with a bare pronoun: re.match(r'^(ele|ela|...)\s', sent_lower)
PronounClauses == {"c_ele"}

GOVERNMENT_ENTITIES ==
    { "anvisa", "ministro", "prefeito" }
POLITICAL_KEYWORDS ==
    { "governo", "mp" }
SOCIAL_RELEVANCE_KEYWORDS ==
    { "desemprego", "pobreza" }
HEALTH_KEYWORDS ==
    { "anvisa", "surto" }
SCIENCE_KEYWORDS ==
    { "estudo" }
ATTRIBUTION_KEYWORDS ==
    { "afirmou", "anunciou", "conforme", "de acordo com", "garante", "para", "segundo" }
ENTERTAINMENT_KEYWORDS ==
    { "ator", "atriz", "cantor", "disco", "filme", "novela" }
SPORTS_KEYWORDS ==
    { "arena", "gol", "jogador" }
CONTROVERSY_KEYWORDS ==
    { "doping" }
SPECULATION_KEYWORDS ==
    { "possivelmente", "talvez" }
VAGUE_QUANTIFIERS ==
    { "alguns", "diversos", "muitos" }
OFFICIAL_GUIDANCE_KEYWORDS ==
    { "deve-se" }
HEALTH_SAFETY_ADVISORY ==
    { "anvisa", "surto", "visa" }
noise_terms ==
    { "clique aqui" }
gov_money_terms ==
    { "governo" }
CE_GOVERNMENT_ENTITIES ==
    { "anvisa", "ministro", "prefeito" }
VAGUE_KEYWORDS ==
    { "alguns", "diversos", "muitos", "possivelmente", "talvez" }
ambiguous_celebrity_words == {"ator", "atriz"}

(***************************************************************************)
(* Source URLs and credibility                                             *)
(***************************************************************************)
(* The article URLs of the model:
     u_g1       https://g1.globo.com/politica/1
     u_poder    https://www.poder360.com.br/economia/2
     u_gazeta   https://www.gazetadopovo.com.br/3
     u_boato    https://boato.example/4
     u_bad      http://[boato/5            (urlparse raises ValueError)
     u_rumor    https://rumor.example/6
*)
SourceUrls == {"u_g1", "u_poder", "u_gazeta", "u_boato", "u_bad", "u_rumor"}

\* urlparse(source_url).netloc.lower().replace('www.', ''), "" when urlparse raises
UrlDomain ==
    "u_g1" :> "g1.globo.com" @@ "u_poder" :> "poder360.com.br" @@
    "u_gazeta" :> "gazetadopovo.com.br" @@ "u_boato" :> "boato.example" @@ "u_bad" :> "" @@
    "u_rumor" :> "rumor.example"

HIGH_CREDIBILITY_SOURCES ==
    { "g1.globo.com", "folha.uol.com.br", "gazetadopovo.com.br", "estadao.com.br",
      "uol.com.br", "bbc.com", "bbc.com/portuguese", "cnnbrasil.com.br", "band.com.br",
      "r7.com", "noticias.uol.com.br", "valor.globo.com", "exame.com" }

MEDIUM_CREDIBILITY_SOURCES ==
    { "cartacapital.com.br", "poder360.com.br", "metropoles.com",
      "correiobraziliense.com.br", "gazetadopovo.com.br", "istoedinheiro.com.br",
      "veja.abril.com.br" }

\* CredibilityLevel of a source configuration, and a level the enum does not know
CredibilityLevels == {"high", "medium", "low", "unknown"}

(***************************************************************************)
(* Bounds                                                                  *)
(***************************************************************************)
\* clauses in one scored text
MaxClauses == 2

(***************************************************************************)
(* Strings                                                                 *)
(***************************************************************************)
Max(a, b) == IF a >= b THEN a ELSE b

Min(a, b) == IF a <= b THEN a ELSE b

RECURSIVE SumOver(_, _)
SumOver(f, S) ==
    IF S = {} THEN 0
    ELSE LET x == CHOOSE y \in S : TRUE IN f[x] + SumOver(f, S \ {x})

\* len of the clauses of S written one after the other with single spaces
RenderLen(S) == IF S = {} THEN 0 ELSE SumOver(ClauseLen, S) + Cardinality(S) - 1

\* str.lower(): capitalised sequences are gone, keywords are found as before
Lower(text) == [text EXCEPT !.lowered = TRUE]

\* f"{a} {b}"
Concat(a, b) ==
    [clauses |-> a.clauses \cup b.clauses,
     len     |-> a.len + 1 + b.len,
     delims  |-> a.delims + b.delims,
     lowered |-> a.lowered /\ b.lowered]

\* kw in text, for a lowercased text
In(kw, text) == \E c \in text.clauses : kw \in Terms[c]

\* PATTERN.search(text) for a pattern of pre_filter.py
Search(pattern, text) == \E c \in text.clauses : pattern \in PreFilterMatch[c]

\* len(re.findall(<capitalised word sequences>, text))
FindProperNouns(text) ==
    IF text.lowered THEN 0 ELSE SumOver(ProperNounCount, text.clauses)

(***************************************************************************)
(* PreFilter (app/filters/pre_filter.py)                                   *)
(***************************************************************************)
_score_content_quality(content) ==
    LET content_length == content.len
        sentence_count == content.delims
        length_score   == IF content_length >= 300 THEN 10
                          ELSE IF content_length >= 150 THEN 7
                          ELSE IF content_length >= 100 THEN 5
                          ELSE 0
        sentence_score == IF sentence_count >= 3 THEN 10
                          ELSE IF sentence_count = 2 THEN 7
                          ELSE IF sentence_count = 1 THEN 3
                          ELSE 0
    IN  length_score + sentence_score

\* the topic families added up
SummedTopics(text) ==
    (IF \E kw \in GOVERNMENT_ENTITIES : In(kw, text) THEN 12 ELSE 0)
    + (IF \E kw \in POLITICAL_KEYWORDS : In(kw, text) THEN 10 ELSE 0)
    + (IF \E kw \in SOCIAL_RELEVANCE_KEYWORDS : In(kw, text) THEN 8 ELSE 0)
    + (IF \E kw \in HEALTH_KEYWORDS \cup SCIENCE_KEYWORDS : In(kw, text) THEN 8 ELSE 0)

base_score(text) ==
    LET gov     == IF \E kw \in GOVERNMENT_ENTITIES : In(kw, text) THEN 12 ELSE 0
        pol     == IF \E kw \in POLITICAL_KEYWORDS : In(kw, text) THEN 10 ELSE 0
        soc     == IF \E kw \in SOCIAL_RELEVANCE_KEYWORDS : In(kw, text) THEN 8 ELSE 0
        has_health  == \E kw \in HEALTH_KEYWORDS : In(kw, text)
        has_science == \E kw \in SCIENCE_KEYWORDS : In(kw, text)
        hs      == IF has_health \/ has_science THEN 8 ELSE 0
    IN  Max(Max(Max(Max(0, gov), pol), soc), hs)

\* the verifiable-data modifier: the first pattern that matches decides
data_score(text) ==
    IF Search("PERCENTAGE_PATTERN", text) THEN 10
    ELSE IF Search("CURRENCY_BRL_PATTERN", text) \/ Search("CURRENCY_USD_PATTERN", text) THEN 10
    ELSE IF Search("LARGE_NUMBER_PATTERN", text) THEN 8
    ELSE IF Search("DATE_PATTERN", text) THEN 6
    ELSE IF Search("NUMBER_PATTERN", text) THEN 4
    ELSE 0

has_data(text) ==
    \/ Search("PERCENTAGE_PATTERN", text)
    \/ Search("CURRENCY_BRL_PATTERN", text) \/ Search("CURRENCY_USD_PATTERN", text)
    \/ Search("LARGE_NUMBER_PATTERN", text)
    \/ Search("DATE_PATTERN", text)
    \/ Search("NUMBER_PATTERN", text)

\* the score before the final clamp
fact_checkable_raw(text) ==
    LET base  == base_score(text)
        quote == IF Search("QUOTE", text) THEN 8 ELSE 0
        has_attribution == \E kw \in ATTRIBUTION_KEYWORDS : In(kw, text)
        attribution == IF has_attribution THEN 6 ELSE 0
        proper_nouns == FindProperNouns(text)
        entities == IF proper_nouns >= 2 THEN 4 ELSE 0
        has_official_guidance == \E kw \in OFFICIAL_GUIDANCE_KEYWORDS : In(kw, text)
        has_health_advisory == \E kw \in HEALTH_SAFETY_ADVISORY : In(kw, text)
        speculation_count == Cardinality({term \in SPECULATION_KEYWORDS : In(term, text)})
        conditional_matches == SumOver(ConditionalCount, text.clauses)
        vague_quant_count == Cardinality({term \in VAGUE_QUANTIFIERS : In(term, text)})
        vague == IF vague_quant_count > 0 /\ ~has_official_guidance
                 THEN vague_quant_count * 8 ELSE 0
        guidance == IF has_official_guidance /\ base >= 12 THEN 6 ELSE 0
        advisory == IF has_health_advisory /\ (has_data(text) \/ has_attribution)
                    THEN 8 ELSE 0
        noise_count == Cardinality({term \in noise_terms : In(term, text)})
        noise == IF noise_count >= 1 THEN 30 ELSE 0
        missing == IF base > 0 /\ ~has_data(text) /\ ~has_attribution THEN 5 ELSE 0
    IN  base + data_score(text) + quote + attribution + entities
        - speculation_count * 15 - conditional_matches * 12 - vague
        + guidance + advisory - noise - missing

\* the score with no upper cap
FactCheckableUncapped(text) == Max(0, fact_checkable_raw(text))

_score_fact_checkable(text) == Max(0, Min(fact_checkable_raw(text), 30))

entertainment_matches(text) ==
    Cardinality({kw \in ENTERTAINMENT_KEYWORDS :
        IF kw \in ambiguous_celebrity_words
        THEN \E c \in text.clauses : kw \in WordBounded[c]
        ELSE In(kw, text)})

entertainment_penalty(text) ==
    LET matches == entertainment_matches(text)
        has_gov_money == \E term \in gov_money_terms : In(term, text)
        has_currency == Search("CURRENCY_BRL_PATTERN", text)
    IN  IF ~(has_gov_money /\ has_currency /\ matches <= 2)
        THEN IF matches >= 3 THEN 35
             ELSE IF matches >= 2 THEN 30
             ELSE IF matches >= 1 THEN 25
             ELSE 0
        ELSE 0

\* the sports penalty when controversy keywords are not looked at
PenalizeSportsAlways(text) ==
    LET sports_matches == Cardinality({kw \in SPORTS_KEYWORDS : In(kw, text)})
    IN  IF sports_matches >= 3 THEN 25
        ELSE IF sports_matches >= 2 THEN 15
        ELSE 0

sports_penalty(text) ==
    LET sports_matches == Cardinality({kw \in SPORTS_KEYWORDS : In(kw, text)})
        has_controversy == \E kw \in CONTROVERSY_KEYWORDS : In(kw, text)
    IN  IF ~has_controversy
        THEN IF sports_matches >= 3 THEN 25
             ELSE IF sports_matches >= 2 THEN 15
             ELSE 0
        ELSE 0

\* the two penalties added with no cap
UncappedPenalty(text) == 0 - entertainment_penalty(text) - sports_penalty(text)

_calculate_topic_penalty(text) ==
    LET penalty == 0 - entertainment_penalty(text) - sports_penalty(text)
    IN  Max(penalty, -40)

\* the source risk when a domain on no list is scored 10 whatever the level
ListsOnly(source_url, credibility_level) ==
    LET domain == UrlDomain[source_url]
    IN  IF domain \in HIGH_CREDIBILITY_SOURCES THEN 3
        ELSE IF domain \in MEDIUM_CREDIBILITY_SOURCES THEN 5
        ELSE 10

_score_source_risk(source_url, credibility_level) ==
    LET domain == UrlDomain[source_url]
    IN  IF domain \in HIGH_CREDIBILITY_SOURCES THEN 3
        ELSE IF domain \in MEDIUM_CREDIBILITY_SOURCES THEN 5
        ELSE IF credibility_level = "low" THEN 10
        ELSE IF credibility_level = "medium" THEN 5
        ELSE IF credibility_level = "high" THEN 3
        ELSE 10

\* the sum of the four parts with no floor
UnflooredTotal(content_quality, fact_checkable, source_risk, topic_penalty) ==
    content_quality + fact_checkable + source_risk + topic_penalty

\* the total of the four parts
score_total(content_quality, fact_checkable, source_risk, topic_penalty) ==
    Max(0, content_quality + fact_checkable + source_risk + topic_penalty)

calculate_score(content, title, source_url, credibility_level) ==
    LET full_text == Lower(Concat(title, content))
        cq == _score_content_quality(content)
        fc == _score_fact_checkable(full_text)
        sr == _score_source_risk(source_url, credibility_level)
        tp == _calculate_topic_penalty(full_text)
    IN  [content_quality |-> cq,
         fact_checkable  |-> fc,
         source_risk     |-> sr,
         topic_penalty   |-> tp,
         total           |-> score_total(cq, fc, sr, tp)]

(***************************************************************************)
(* SentenceScorer and ClaimExtractor (app/nlp/claim_extractor.py)          *)
(***************************************************************************)
\* PATTERN.search(sentence) for a pattern of claim_extractor.py
Matches(pattern, sentence) == \E c \in sentence : pattern \in ClaimMatch[c]

\* kw in sent_lower
InSentence(kw, sentence) == \E c \in sentence : kw \in Terms[c]

\* the attribution points of the best-paid pattern that matches
HighestAttribution(sentence) ==
    IF Matches("PATTERN_ENTITY_VERB_QUE", sentence) THEN 30
    ELSE IF \/ Matches("PATTERN_SEGUNDO", sentence)
            \/ Matches("PATTERN_DE_ACORDO_COM", sentence)
            \/ Matches("PATTERN_ENTITY_VERB_COLON", sentence) THEN 25
    ELSE IF Matches("PATTERN_CONFORME", sentence) \/ Matches("PATTERN_ENTITY_ACTION", sentence)
         THEN 20
    ELSE 0

\* the attribution points: the first pattern that matches decides
attribution_score(sentence) ==
    IF Matches("PATTERN_ENTITY_VERB_QUE", sentence) THEN 30
    ELSE IF Matches("PATTERN_SEGUNDO", sentence) \/ Matches("PATTERN_DE_ACORDO_COM", sentence)
         THEN 25
    ELSE IF Matches("PATTERN_CONFORME", sentence) THEN 20
    ELSE IF Matches("PATTERN_ENTITY_VERB_COLON", sentence) THEN 25
    ELSE IF Matches("PATTERN_ENTITY_ACTION", sentence) THEN 20
    ELSE 0

has_attribution(sentence) ==
    \E p \in {"PATTERN_ENTITY_VERB_QUE", "PATTERN_SEGUNDO", "PATTERN_DE_ACORDO_COM",
              "PATTERN_CONFORME", "PATTERN_ENTITY_VERB_COLON", "PATTERN_ENTITY_ACTION"} :
        Matches(p, sentence)

\* the verifiable-data points: the first pattern that matches decides
sentence_data_score(sentence) ==
    IF Matches("PERCENTAGE_PATTERN", sentence) THEN 20
    ELSE IF Matches("CURRENCY_BRL_PATTERN", sentence) \/ Matches("CURRENCY_USD_PATTERN", sentence)
         THEN 20
    ELSE IF Matches("LARGE_NUMBER_PATTERN", sentence) THEN 15
    ELSE IF Matches("DATE_PATTERN", sentence) THEN 10
    ELSE IF Matches("NUMBER_PATTERN", sentence) THEN 8
    ELSE 0

sentence_has_data(sentence) ==
    \E p \in {"PERCENTAGE_PATTERN", "CURRENCY_BRL_PATTERN", "CURRENCY_USD_PATTERN",
              "LARGE_NUMBER_PATTERN", "DATE_PATTERN", "NUMBER_PATTERN"} :
        Matches(p, sentence)

\* the score of a sentence that passed the noise check
checkability_score(sentence) ==
    LET quote == IF Matches("PATTERN_DIRECT_QUOTE", sentence) THEN 40 ELSE 0
        bonus == IF has_attribution(sentence) /\ sentence_has_data(sentence) THEN 15 ELSE 0
        affirmation == IF sentence_has_data(sentence)
                          /\ Matches("PATTERN_DATA_AFFIRMATION", sentence) THEN 15 ELSE 0
        has_gov_entity == \E entity \in CE_GOVERNMENT_ENTITIES : InSentence(entity, sentence)
        gov == IF has_gov_entity
               THEN 10 + (IF sentence_has_data(sentence) THEN 5 ELSE 0) ELSE 0
        vague_count == Cardinality({term \in VAGUE_KEYWORDS : InSentence(term, sentence)})
        opinion == IF Matches("opinion_patterns", sentence) THEN 20 ELSE 0
        sent_len == RenderLen(sentence)
        length == IF 50 <= sent_len /\ sent_len <= 150 THEN 5
                  ELSE IF sent_len < 30 THEN -15
                  ELSE IF sent_len > 200 THEN -10
                  ELSE 0
        pronoun == IF sentence \cap PronounClauses # {} THEN 10 ELSE 0
    IN  quote + attribution_score(sentence) + bonus + sentence_data_score(sentence)
        + affirmation + gov - vague_count * 15 - opinion + length - pronoun

\* noise taken off the score instead of deciding it
NoiseAsPenalty(sentence) ==
    checkability_score(sentence) - (IF Matches("NOISE_PATTERNS", sentence) THEN 100 ELSE 0)

score_sentence(sentence) ==
    IF Matches("NOISE_PATTERNS", sentence) THEN -100
    ELSE checkability_score(sentence)

\* the elements removed before the text is read
NoiseElements == {"script", "style", "iframe", "noscript", "nav", "header", "footer"}

RECURSIVE Flatten(_)
\* soup.get_text(): the segments of the elements that are kept, in document order
Flatten(html) ==
    IF html = <<>> THEN <<>>
    ELSE (IF Head(html).tag \in NoiseElements THEN <<>> ELSE Head(html).segments)
         \o Flatten(Tail(html))

\* the pieces between sentence delimiters that are at least 30 characters long
_split_sentences(segments) ==
    LET Keep(i) == RenderLen(segments[i]) >= 30
    IN  SelectSeq([i \in 1..Len(segments) |-> i], Keep)

RECURSIVE InsertByKey(_, _, _)
\* x put into the list xs (ascending in key) after the elements with a key <= key[x]
InsertByKey(xs, x, key) ==
    IF xs = <<>> THEN <<x>>
    ELSE IF key[Head(xs)] <= key[x] THEN <<Head(xs)>> \o InsertByKey(Tail(xs), x, key)
    ELSE <<x>> \o xs

RECURSIVE SortByKey(_, _)
\* list.sort(key=key): ascending and stable
SortByKey(xs, key) ==
    IF xs = <<>> THEN <<>>
    ELSE InsertByKey(SortByKey(SubSeq(xs, 1, Len(xs) - 1), key), xs[Len(xs)], key)

min_score_threshold == 15

RECURSIVE SelectTop(_, _, _, _, _)
\* the selection loop over the sentences sorted by score: the indices selected
SelectTop(sorted, segments, max_chars, selected, char_count) ==
    IF sorted = <<>> THEN selected
    ELSE LET i == Head(sorted)
             length == RenderLen(segments[i])
         IN  IF score_sentence(segments[i]) < min_score_threshold THEN selected
             ELSE IF char_count + length > max_chars /\ Len(selected) >= 2 THEN selected
             ELSE LET sel == Append(selected, i)
                      cnt == char_count + length
                  IN  IF Len(sel) >= 2 /\ cnt >= 150 THEN sel
                      ELSE IF Len(sel) >= 3 /\ cnt >= 250 THEN sel
                      ELSE SelectTop(Tail(sorted), segments, max_chars, sel, cnt)

\* s in t: the clauses of s are written in t with no other clause of t between them
Contains(t, s) ==
    /\ s # {}
    /\ s \subseteq t
    /\ \A c \in t \ s : \/ \A x \in s : ClausePosition[c] < ClausePosition[x]
                         \/ \A y \in s : ClausePosition[y] < ClausePosition[c]

\* t.find(s) for a sentence t that contains s
OffsetIn(t, s) ==
    LET before == {c \in t \ s : \A x \in s : ClausePosition[c] < ClausePosition[x]}
    IN  SumOver(ClauseLen, before) + Cardinality(before)

RECURSIVE OffsetOf(_, _)
\* the place in the text where segment j begins: the segments before it, each with its ". "
OffsetOf(segments, j) ==
    IF j = 1 THEN 0 ELSE OffsetOf(segments, j - 1) + RenderLen(segments[j - 1]) + 2

\* text.find(s): the place of the first occurrence of the sentence in the text
FirstOccurrence(segments, s) ==
    LET found == {n \in 1..Len(segments) : Contains(segments[n], s)}
    IN  IF found = {} THEN 999999
        ELSE LET j == CHOOSE n \in found : \A k \in found : n <= k
             IN  OffsetOf(segments, j) + OffsetIn(segments[j], s)

\* the selection left in the order of the scores
SelectedByScore(segments, max_chars) ==
    LET sentences == _split_sentences(segments)
        Positive(i) == score_sentence(segments[i]) > 0
        scored == SelectSeq(sentences, Positive)
        by_score == [i \in 1..Len(segments) |-> 0 - score_sentence(segments[i])]
        sorted == SortByKey(scored, by_score)
    IN  SelectTop(sorted, segments, max_chars, <<>>, 0)

\* the indices, in the order of the excerpt, of the segments extract_from_html picks
SelectedIndices(segments, max_chars) ==
    LET sentences == _split_sentences(segments)
        Positive(i) == score_sentence(segments[i]) > 0
        scored == SelectSeq(sentences, Positive)
        by_score == [i \in 1..Len(segments) |-> 0 - score_sentence(segments[i])]
        sorted == SortByKey(scored, by_score)
        selected == SelectTop(sorted, segments, max_chars, <<>>, 0)
        by_position == [i \in 1..Len(segments) |-> FirstOccurrence(segments, segments[i])]
    IN  SortByKey(selected, by_position)

\* the excerpt: the selected sentences, written joined by ". " and closed by "."
extract_from_html(html_content, max_chars) ==
    LET segments == Flatten(html_content)
        picked == SelectedIndices(segments, max_chars)
    IN  [i \in 1..Len(picked) |-> segments[picked[i]]]

extract_checkable_content(html, max_chars) == extract_from_html(html, max_chars)

RECURSIVE SumLen(_)
SumLen(sentences) ==
    IF sentences = <<>> THEN 0 ELSE RenderLen(Head(sentences)) + SumLen(Tail(sentences))

\* len of an excerpt
ExcerptLen(excerpt) ==
    IF excerpt = <<>> THEN 0
    ELSE SumLen(excerpt) + 2 * (Len(excerpt) - 1) + 1

\* the excerpt as the text handed to the pre-filter
ExcerptText(excerpt) ==
    [clauses |-> UNION {excerpt[i] : i \in 1..Len(excerpt)},
     len     |-> ExcerptLen(excerpt),
     delims  |-> Len(excerpt),
     lowered |-> FALSE]

(***************************************************************************)
(* ClaimExtractor.extract_claims_with_attribution                          *)
(* A text is its sentences, written one after the other with ". " between  *)
(***************************************************************************)
\* the attribution patterns in the order they are tried
patterns ==
    << "PATTERN_ENTITY_VERB_QUE", "PATTERN_SEGUNDO", "PATTERN_DE_ACORDO_COM",
       "PATTERN_CONFORME", "PATTERN_ENTITY_VERB_COLON", "PATTERN_ENTITY_ACTION" >>

\* the clause of the sentence where the leftmost match of the pattern has its claim group
ClaimClause(pattern, sentence) ==
    CHOOSE c \in sentence :
        /\ pattern \in DOMAIN ClaimStart[c]
        /\ \A d \in sentence : pattern \in DOMAIN ClaimStart[d]
                                  => ClausePosition[c] <= ClausePosition[d]

\* the clauses written after clause c in the sentence
After(c, sentence) == {d \in sentence : ClausePosition[d] > ClausePosition[c]}

\* len(claim_text): the claim group runs up to the end of the sentence
ClaimLen(claim) ==
    ClauseLen[claim.clause] - claim.start
    + SumOver(ClauseLen, After(claim.clause, claim.sentence))
    + Cardinality(After(claim.clause, claim.sentence))

\* the claim group of the match of the pattern in the sentence
ClaimGroup(pattern, sentence) ==
    LET c == ClaimClause(pattern, sentence)
    IN  [sentence |-> sentence, clause |-> c, start |-> ClaimStart[c][pattern]]

\* PERCENTAGE_PATTERN.search(claim_text) or CURRENCY_BRL_PATTERN.search(claim_text)
ClaimHasData(claim) ==
    \E d \in After(claim.clause, claim.sentence) :
        ClaimMatch[d] \cap {"PERCENTAGE_PATTERN", "CURRENCY_BRL_PATTERN"} # {}

\* pattern.search(text): the first match only
SearchOnce(pattern, text) ==
    LET Hit(i) == \E c \in text[i] : pattern \in DOMAIN ClaimStart[c]
        found == SelectSeq([i \in 1..Len(text) |-> i], Hit)
    IN  IF found = <<>> THEN <<>> ELSE <<ClaimGroup(pattern, text[found[1]])>>

\* pattern.finditer(text): the claim groups of the matches, one in every sentence
\* that holds the pattern, since a match runs up to the end of its sentence
finditer(pattern, text) ==
    LET Hit(i) == \E c \in text[i] : pattern \in DOMAIN ClaimStart[c]
        found == SelectSeq([i \in 1..Len(text) |-> i], Hit)
    IN  [k \in 1..Len(found) |-> ClaimGroup(pattern, text[found[k]])]

min_claim_length == 20

RECURSIVE CollectClaims(_, _)
\* the loop over the patterns from the n-th on
CollectClaims(n, text) ==
    IF n > Len(patterns) THEN <<>>
    ELSE LET LongEnough(claim) == ~(ClaimLen(claim) < min_claim_length)
             kept == SelectSeq(finditer(patterns[n], text), LongEnough)
         IN  [k \in 1..Len(kept) |-> [pattern  |-> patterns[n],
                                      claim    |-> kept[k],
                                      has_data |-> ClaimHasData(kept[k])]]
             \o CollectClaims(n + 1, text)

extract_claims_with_attribution(text) == CollectClaims(1, text)
(***************************************************************************)
(* State                                                                   *)
(***************************************************************************)
VARIABLES
    pf_in,              \* the arguments of a calculate_score call
    pf_out,             \* its result, NoResult before the call
    sn_in,              \* the sentence of a score_sentence call
    sn_out,             \* its score
    ex_in,              \* the arguments of an extract_checkable_content call
    ex_out,             \* the excerpt it returns
    ca_in,              \* the text of an extract_claims_with_attribution call
    ca_out,             \* the claims it returns
    settings,           \* the global settings instance: the two thresholds
    extracted_content,  \* the extracted_content collection, a document's place is its _id
    extraction,         \* per extraction task: the entry it is working on and where it is
    submission,         \* per submission task: the content it is handling and where it is
    api_calls,          \* the create_verification_request calls made so far
    verification_requests, \* the requests AletheiaFact created: the content of each, its id
                        \* is its place
    source_configuration,  \* the source_configuration collection: the counters per source
    scheduled,          \* the job of the scheduler: where its run is
    nu_in,              \* the argument of a normalize_url call
    nu_out,             \* the results of normalize_url applied to it, and again to the result
    hs_in,              \* the arguments of two generate_content_hash calls
    hs_out,             \* their results
    now,                \* datetime.utcnow(), in seconds
    _access_token,      \* ory_auth._access_token: the cached token, NoToken for None
    _token_expires_at,  \* ory_auth._token_expires_at, NoTime for None
    _token_lock,        \* ory_auth._token_lock: whether it is held, and who waits for it
    callers,            \* per caller of get_access_token: where it is
    calls,              \* the calls of get_access_token made so far
    issued,             \* the tokens the auth server has issued so far
    burst               \* the callers that met one refresh, and what they did and got

score_vars == <<pf_in, pf_out>>

extract_vars == <<sn_in, sn_out, ex_in, ex_out, ca_in, ca_out>>

pipeline_vars ==
    <<settings, extracted_content, extraction, submission, api_calls,
      verification_requests, source_configuration, scheduled>>

url_vars == <<nu_in, nu_out>>

hash_vars == <<hs_in, hs_out>>

auth_vars == <<now, _access_token, _token_expires_at, _token_lock, callers, calls, issued, burst>>

aux_vars == <<url_vars, hash_vars, auth_vars>>

vars == <<pf_in, pf_out, sn_in, sn_out, ex_in, ex_out, ca_in, ca_out,
          settings, extracted_content, extraction, submission, api_calls,
          verification_requests, source_configuration, scheduled,
          nu_in, nu_out, hs_in, hs_out,
          now, _access_token, _token_expires_at, _token_lock, callers, calls, issued, burst>>

NoInput == [none |-> TRUE]

NoResult == [none |-> TRUE]

\* class ContentStatus
PENDING == "pending"

SUBMITTED == "submitted"

REJECTED == "rejected"

FAILED == "failed"

\* settings = Settings(): the defaults of the two thresholds and of automatic submission
DefaultSettings ==
    [minimum_save_score |-> 20, submission_score_threshold |-> 38,
     auto_submit_enabled |-> FALSE]

\* the variables of the scoring specification at rest
ScoreIdle == pf_in = NoInput /\ pf_out = NoResult

\* the variables of the extraction specification at rest
ExtractIdle ==
    /\ sn_in = NoInput /\ sn_out = NoResult
    /\ ex_in = NoInput /\ ex_out = NoResult
    /\ ca_in = NoInput /\ ca_out = NoResult

\* the variables of the URL and hash specifications at rest
UrlIdle == nu_in = NoInput /\ nu_out = <<>>

HashIdle == hs_in = NoInput /\ hs_out = NoResult

\* callers of get_access_token
MaxCallers == 3

Callers == 1 .. MaxCallers

\* self._access_token = None: tokens are numbered from 1
NoToken == 0

\* self._token_expires_at = None
NoTime == -1

\* no refresh has been met yet
NoBurst ==
    [pending |-> {}, size |-> 0, open |-> FALSE, requests |-> 0, lifetime |-> 0,
     token |-> NoToken, tokens |-> {}]

\* OryAuthService(): nothing cached, the lock free, no caller inside
AuthIdle ==
    /\ now = 0
    /\ _access_token = NoToken
    /\ _token_expires_at = NoTime
    /\ _token_lock = [locked |-> FALSE, waiters |-> <<>>]
    /\ callers = [c \in Callers |-> "idle"]
    /\ calls = 0
    /\ issued = 0
    /\ burst = NoBurst

AuxIdle == UrlIdle /\ HashIdle /\ AuthIdle

\* the task that runs extractions, one source after the other
ExtractTasks == {"extract_from_source"}

\* the tasks that run submissions: the batch submission and the submit route
SubmitTasks == {"submit_pending", "submit_route"}

NoDoc == [none |-> TRUE]

\* extracted_count and saved: the counter of the run and what _save_content returned in it
IdleExtraction ==
    [pc |-> "idle", entry |-> NoInput, steps |-> <<>>, content_dict |-> NoDoc,
     extracted_count |-> 0, saved |-> <<>>]

\* verificationRequestId of a document that was never submitted
NoRequest == 0

IdleSubmission ==
    [pc |-> "idle", content_id |-> 0, result |-> "", queue |-> <<>>, vr_id |-> NoRequest]

\* the sources: each has one article in its feed or on its listing page
SourceNames == {"s_boato", "s_gazeta", "s_poder", "s_g1", "s_rumor"}

\* the scheduler started and its job is not running
IdleJob == [pc |-> "idle"]

\* the tasks of the pipeline at rest, whichever tasks there are
PipelineAtRest(extract_tasks, submit_tasks) ==
    /\ settings = DefaultSettings
    /\ extracted_content = <<>>
    /\ extraction = [t \in extract_tasks |-> IdleExtraction]
    /\ submission = [t \in submit_tasks |-> IdleSubmission]
    /\ api_calls = {}
    /\ verification_requests = <<>>
    /\ source_configuration = [s \in SourceNames |-> [totalExtracted |-> 0, totalSubmitted |-> 0]]
    /\ scheduled = IdleJob

\* the service after start-up: default settings, an empty collection, no task running
PipelineInit == PipelineAtRest(ExtractTasks, SubmitTasks)

(***************************************************************************)
(* Scoring specification: calculate_score over bounded inputs              *)
(***************************************************************************)
\* the clauses pre_filter.py reacts to
ScoreClauses ==
    { "c_min_que", "c_pct", "c_brl", "c_usd", "c_large", "c_date", "c_num", "c_quote",
      "c_action", "c_anvisa", "c_social", "c_science", "c_spec", "c_spec2", "c_cond",
      "c_vague", "c_guide", "c_noise", "c_ent1", "c_ent2", "c_ent3", "c_relator",
      "c_sport2", "c_sport3", "c_doping", "c_names" }

\* neutral text around the clauses: its length and its sentence delimiters
Fillers ==
    { [len |-> 0, delims |-> 0], [len |-> 40, delims |-> 1], [len |-> 100, delims |-> 1],
      [len |-> 100, delims |-> 2], [len |-> 150, delims |-> 2], [len |-> 150, delims |-> 3],
      [len |-> 300, delims |-> 0], [len |-> 300, delims |-> 4] }

Titles == { {}, {"c_ent1"}, {"c_min_que"} }

ScoreSources ==
    { <<"u_g1", "low">>, <<"u_poder", "high">>, <<"u_boato", "low">>,
      <<"u_boato", "medium">>, <<"u_bad", "high">>, <<"u_boato", "unknown">> }

\* the clauses of a quote of a minister with a percentage, and clauses that cost points
ScenarioClauses ==
    { "c_min_que", "c_pct", "c_quote", "c_spec", "c_cond", "c_vague", "c_vague2", "c_guide",
      "c_ent1", "c_sport3" }

\* every source URL under every credibility level
SourcePairs == SourceUrls \X CredibilityLevels

Text(clauses, filler) ==
    [clauses |-> clauses,
     len     |-> RenderLen(clauses) + filler.len,
     delims  |-> filler.delims,
     lowered |-> FALSE]

RECURSIVE SetsUpTo(_, _)
\* the subsets of V with at most n elements
SetsUpTo(V, n) ==
    IF n = 0 THEN {{}}
    ELSE LET smaller == SetsUpTo(V, n - 1)
         IN  smaller \cup {S \cup {c} : S \in smaller, c \in V}

InitScore ==
    /\ pf_in \in [content : {Text(S, f) : S \in SetsUpTo(ScoreClauses, MaxClauses), f \in Fillers},
                  title   : {Text(S, [len |-> 0, delims |-> 0]) : S \in Titles},
                  source  : ScoreSources]
                 \cup
                 [content : {Text(S, [len |-> 300, delims |-> 4]) : S \in SetsUpTo(ScoreClauses, 1)},
                  title   : {Text({}, [len |-> 0, delims |-> 0])},
                  source  : SourcePairs]
                 \cup
                 [content : {Text(S, f) : S \in SetsUpTo(ScenarioClauses, MaxClauses + 2),
                                          f \in {[len |-> 300, delims |-> 4],
                                                 [len |-> 150, delims |-> 2]}},
                  title   : {Text(S, [len |-> 0, delims |-> 0]) : S \in {{}, {"c_ent1"}}},
                  source  : {"u_boato", "u_rumor", "u_poder"} \X CredibilityLevels]
    /\ pf_out = NoResult
    /\ ExtractIdle
    /\ PipelineInit
    /\ AuxIdle

ScoreContent ==
    /\ pf_in # NoInput
    /\ pf_out = NoResult
    /\ pf_out' = calculate_score(pf_in.content, pf_in.title, pf_in.source[1], pf_in.source[2])
    /\ UNCHANGED <<aux_vars, pf_in, extract_vars, pipeline_vars>>

NextScore == ScoreContent

SpecScore == InitScore /\ [][NextScore]_vars

(***************************************************************************)
(* Extraction specification: score_sentence and extract_checkable_content  *)
(* over bounded inputs                                                     *)
(***************************************************************************)
\* clauses in one scored sentence
MaxSentenceClauses == 3

\* sentence segments in one document
MaxSegments == 3

(* The segments documents are built from:
     a strong claim, two long claims, a claim with a call to action in it, a weak
     sentence, a fragment under 30 characters, and three short claims *)
SegmentCorpus ==
    { {"c_min_que", "c_pct", "c_pad40"},
      {"c_segundo", "c_brl", "c_pad230"},
      {"c_action", "c_pct", "c_pad230"},
      {"c_min_que", "c_pct", "c_noise"},
      {"c_num", "c_pad40"},
      {"c_pct"},
      {"c_min_que"},
      {"c_colon"} }

\* sentences in the text claims are extracted from
MaxClaimSentences == 2

(* The sentences of those texts: each attribution pattern with a claim under 20
   characters and with a longer one, a claim of exactly 20 characters, two patterns
   on one span, two patterns one after the other, and a sentence with no pattern *)
ClaimCorpus ==
    { {"c_min_que"},
      {"c_min_que", "c_pct"},
      {"c_anun_que"},
      {"c_anun_que", "c_pct"},
      {"c_segundo"},
      {"c_segundo", "c_brl"},
      {"c_acordo", "c_usd"},
      {"c_conforme", "c_pct"},
      {"c_colon"},
      {"c_action"},
      {"c_action", "c_pad40"},
      {"c_min_que", "c_action", "c_pad40"},
      {"c_num", "c_pad40"} }

RECURSIVE Texts(_)
\* the texts of at most n sentences
Texts(n) ==
    IF n = 0 THEN { <<>> }
    ELSE LET smaller == Texts(n - 1)
         IN  smaller \cup { Append(t, s) : t \in smaller, s \in ClaimCorpus }

\* the character budgets: a small one and that of the feed extractor
MaxCharsSet == {100, 500}

\* d with one more segment, in its last element or in a new paragraph
ExtendDocument(d, s) ==
    { Append(d, [tag |-> "p", segments |-> <<s>>]) }
    \cup (IF d = <<>> THEN { <<[tag |-> "nav", segments |-> <<s>>]>> }
          ELSE { [d EXCEPT ![Len(d)].segments = Append(@, s)] })

RECURSIVE Documents(_)
\* the documents of at most n segments: paragraphs, after a navigation element or not
Documents(n) ==
    IF n = 0 THEN { <<>> }
    ELSE LET smaller == Documents(n - 1)
         IN  smaller \cup UNION { ExtendDocument(d, s) : d \in smaller, s \in SegmentCorpus }

InitExtract ==
    /\ ScoreIdle
    /\ PipelineInit
    /\ AuxIdle
    /\ sn_out = NoResult
    /\ ex_out = NoResult
    /\ ca_out = NoResult
    /\ \/ /\ sn_in \in [sentence : SetsUpTo(Vocabulary, MaxSentenceClauses) \ {{}}]
          /\ ex_in = NoInput
          /\ ca_in = NoInput
       \/ /\ sn_in = NoInput
          /\ ex_in \in [html : Documents(MaxSegments), max_chars : MaxCharsSet]
          /\ ca_in = NoInput
       \/ /\ sn_in = NoInput
          /\ ex_in = NoInput
          /\ ca_in \in [text : Texts(MaxClaimSentences)]

ScoreSentence ==
    /\ sn_in # NoInput
    /\ sn_out = NoResult
    /\ sn_out' = [score |-> score_sentence(sn_in.sentence)]
    /\ UNCHANGED <<aux_vars, score_vars, sn_in, ex_in, ex_out, ca_in, ca_out, pipeline_vars>>

ExtractCheckableContent ==
    /\ ex_in # NoInput
    /\ ex_out = NoResult
    /\ ex_out' = [excerpt |-> extract_checkable_content(ex_in.html, ex_in.max_chars)]
    /\ UNCHANGED <<aux_vars, score_vars, sn_in, sn_out, ex_in, ca_in, ca_out, pipeline_vars>>

ExtractClaimsWithAttribution ==
    /\ ca_in # NoInput
    /\ ca_out = NoResult
    /\ ca_out' = [claims |-> extract_claims_with_attribution(ca_in.text)]
    /\ UNCHANGED <<aux_vars, score_vars, sn_in, sn_out, ex_in, ex_out, ca_in, pipeline_vars>>

NextExtract == ScoreSentence \/ ExtractCheckableContent \/ ExtractClaimsWithAttribution

SpecExtract == InitExtract /\ [][NextExtract]_vars

(***************************************************************************)
(* Extractors (app/extractors) and SubmissionService (app/services)        *)
(***************************************************************************)
\* articles in the collection or on their way into it
MaxDocuments == 1

\* verification requests AletheiaFact creates
MaxRequests == 2

\* the values the thresholds are given: the defaults, a higher minimum, a lower threshold
ThresholdValues ==
    [minimum_save_score |-> {20, 45}, submission_score_threshold |-> {38, 30}]

\* max_batch_submission
max_batch_submission == 100

\* what langdetect makes of an excerpt
Languages == {"pt", "en"}

Paragraph(segments) == [tag |-> "p", segments |-> segments]

(* The articles of the sources: the normalised url, the title, the way the source is read,
   the summary (the content of the feed entry, or the excerpt element of the listing page),
   the article page, and the credibility level of the source *)
Feed ==
    { [url |-> "u_boato", sourceName |-> "s_boato", title |-> {"c_action"}, path |-> "rss", credibilityLevel |-> "low",
       summary |-> <<Paragraph(<<{"c_min_que", "c_pct", "c_pad40"}>>)>>,
       page    |-> <<>>],
      [url |-> "u_gazeta", sourceName |-> "s_gazeta", title |-> {"c_action"}, path |-> "rss", credibilityLevel |-> "high",
       summary |-> <<Paragraph(<<{"c_min_que", "c_pct", "c_noise"}, {"c_pad40"}>>)>>,
       page    |-> <<>>],
      [url |-> "u_poder", sourceName |-> "s_poder", title |-> {"c_action"}, path |-> "html_listing",
       credibilityLevel |-> "medium",
       summary |-> <<Paragraph(<<{"c_min_que", "c_pct", "c_pad40"}>>)>>,
       page    |-> <<>>],
      [url |-> "u_g1", sourceName |-> "s_g1", title |-> {"c_action"}, path |-> "html_follow",
       credibilityLevel |-> "high",
       summary |-> <<Paragraph(<<{"c_min_que", "c_pct", "c_pad40"}>>)>>,
       page    |-> <<Paragraph(<<{"c_min_que", "c_pct", "c_pad40"},
                                 {"c_segundo", "c_brl", "c_pad230"}>>)>>],
      [url |-> "u_rumor", sourceName |-> "s_rumor", title |-> {"c_action"}, path |-> "html_follow",
       credibilityLevel |-> "medium",
       summary |-> <<Paragraph(<<{"c_min_que", "c_pct", "c_pad40"}>>)>>,
       page    |-> <<[tag |-> "nav", segments |-> <<{"c_min_que", "c_pct", "c_pad40"}>>],
                     Paragraph(<<{"c_min_que", "c_pct", "c_noise"}, {"c_pad40"}>>)>>] }

\* the characters str.split() splits at: a space, a run of spaces, a tab
Whitespace == {" ", "  ", "\t"}

RECURSIVE SplitJoin(_, _)
\* " ".join(content.split()): no whitespace at the ends, one space for every run between
\* words (pending: whether whitespace was passed since the last word)
SplitJoin(content, pending) ==
    IF content = <<>> THEN <<>>
    ELSE IF Head(content) \in Whitespace THEN SplitJoin(Tail(content), TRUE)
    ELSE (IF pending THEN <<" ">> ELSE <<>>) \o <<Head(content)>>
             \o SplitJoin(Tail(content), FALSE)

RECURSIVE SkipWhitespace(_)
SkipWhitespace(content) ==
    IF content # <<>> /\ Head(content) \in Whitespace THEN SkipWhitespace(Tail(content))
    ELSE content

\* normalized_content = " ".join(content.split())
normalized_content(content) == SplitJoin(SkipWhitespace(content), FALSE)

\* combined = f"{url}|{normalized_content}"
combined(url, content) == url \o <<"|">> \o normalized_content(content)

\* the SHA-256 digest of the combined string, taken as one to one: the string stands for
\* its digest
generate_content_hash(url, content) == combined(url, content)

RECURSIVE ClauseTokens(_)
\* the clauses of a sentence as words in the order of the text
ClauseTokens(clauses) ==
    IF clauses = {} THEN <<>>
    ELSE LET first == CHOOSE c \in clauses :
                          \A d \in clauses : ClausePosition[c] <= ClausePosition[d]
             rest == ClauseTokens(clauses \ {first})
         IN  IF rest = <<>> THEN <<first>> ELSE <<first, " ">> \o rest

RECURSIVE ExcerptTokens(_)
\* the excerpt as a string of words: the sentences joined with '. ' and closed with '.'
ExcerptTokens(excerpt) ==
    IF excerpt = <<>> THEN <<>>
    ELSE IF Len(excerpt) = 1 THEN ClauseTokens(excerpt[1]) \o <<".">>
    ELSE ClauseTokens(excerpt[1]) \o <<".", " ">> \o ExcerptTokens(Tail(excerpt))

\* the length check left out
NeverTooShort(content, min_length) == FALSE

\* len(content) < 50, and < 100 for a full article
too_short(content, min_length) == ExcerptLen(content) < min_length

\* whatever the score, the content is handed on
SaveAnything(total) == TRUE

\* not (score_breakdown['total'] < settings.minimum_save_score)
should_save(total) == total >= settings.minimum_save_score

\* the status decided with the threshold the settings were created with
CachedInitialStatus(total) ==
    IF total >= DefaultSettings.submission_score_threshold THEN PENDING ELSE REJECTED

\* the status an extractor gives the article it hands on
initial_status(total) ==
    IF total >= settings.submission_score_threshold THEN PENDING ELSE REJECTED

\* what one pass over raw content gave: a content dictionary or nothing, and the record of
\* the pass (what was extracted, its total or -1 when it was not scored, what became of it)
Pass(content_dict, stage, content, total, outcome) ==
    [content_dict |-> content_dict,
     step |-> [stage |-> stage, content |-> content, total |-> total, outcome |-> outcome]]

\* the scored content is skipped below the minimum and handed on with its status otherwise
Classify(entry, stage, content, total) ==
    IF ~should_save(total)
    THEN Pass(NoDoc, stage, content, total, "below_minimum")
    ELSE Pass([sourceUrl      |-> entry.url,
               sourceName     |-> entry.sourceName,
               content        |-> content,
               preFilterScore |-> total,
               status         |-> initial_status(total),
               contentHash    |-> generate_content_hash(<<entry.url>>, ExcerptTokens(content)),
               verificationRequestId |-> NoRequest],
              stage, content, total, "kept")

\* the excerpt is dropped when too short or not Portuguese, and scored otherwise
CheckAndScore(entry, stage, content, min_length, language) ==
    IF too_short(content, min_length)
    THEN Pass(NoDoc, stage, content, -1, "too_short")
    ELSE IF language # "pt"
    THEN Pass(NoDoc, stage, content, -1, "language")
    ELSE Classify(entry, stage, content,
                  calculate_score(ExcerptText(content),
                                  Text(entry.title, [len |-> 0, delims |-> 0]),
                                  entry.url, entry.credibilityLevel).total)

\* one pass from raw content to a content dictionary, or to nothing
ProcessContent(entry, stage, raw_content, max_chars, min_length, language) ==
    CheckAndScore(entry, stage, extract_checkable_content(raw_content, max_chars),
                  min_length, language)

\* the result of an extractor that made one pass
OnePass(r) == [content_dict |-> r.content_dict, steps |-> <<r.step>>]

\* RSSExtractor._extract_entry after the duplicate check
_extract_entry(entry, language) ==
    OnePass(ProcessContent(entry, "rss", entry.summary, 500, 50, language))

\* HTMLExtractor._extract_full_article: nothing when the page cannot be fetched
_extract_full_article(entry, fetched, language) ==
    IF fetched THEN ProcessContent(entry, "full", entry.page, 2000, 100, language)
    ELSE Pass(NoDoc, "full", <<>>, -1, "fetch_failed")

\* the full article when it yields a dictionary, the excerpt of the listing page otherwise
FullOrExcerpt(full, listing) ==
    IF full.content_dict # NoDoc THEN OnePass(full)
    ELSE [content_dict |-> listing.content_dict, steps |-> <<full.step, listing.step>>]

\* HTMLExtractor._parse_article after the duplicate check: the full article when links are
\* followed and that yields a dictionary, the excerpt of the listing page otherwise
_parse_article(entry, follow_links, fetched, page_language, language) ==
    IF follow_links
    THEN FullOrExcerpt(_extract_full_article(entry, fetched, page_language),
                       ProcessContent(entry, "listing", entry.summary, 500, 50, language))
    ELSE OnePass(ProcessContent(entry, "listing", entry.summary, 500, 50, language))

\* the outcome of the extractor's work on the entry is taken over by the task
Processed(t, entry, r) ==
    extraction' = [extraction EXCEPT ![t] =
        [pc |-> IF r.content_dict = NoDoc THEN "dropped" ELSE "save",
         entry |-> entry, steps |-> r.steps, content_dict |-> r.content_dict,
         extracted_count |-> 0, saved |-> <<>>]]

\* the job of the scheduler and the task that does its work
ScheduledJob == "scheduled_extraction"

\* the urls of the articles that are in the collection or about to be inserted
ArticleUrls ==
    { extracted_content[i].sourceUrl : i \in DOMAIN extracted_content }
    \cup { extraction[u].entry.url : u \in {v \in DOMAIN extraction : extraction[v].pc = "save"} }

\* extract_from_source begins on a source and takes up the entry of its feed: unless a
\* document has its sourceUrl already, the entry is extracted, scored and classified
ExtractEntry(t, entry) ==
    /\ extraction[t].pc = "idle"
    /\ t = ScheduledJob => scheduled.pc = "extracting"
    /\ Cardinality(ArticleUrls \cup {entry.url}) <= MaxDocuments
    /\ LET existing == \E i \in DOMAIN extracted_content :
                           extracted_content[i].sourceUrl = entry.url
       IN  IF existing
           THEN Processed(t, entry, [content_dict |-> NoDoc, steps |-> <<>>])
           ELSE IF entry.path = "rss"
           THEN \E language \in Languages : Processed(t, entry, _extract_entry(entry, language))
           ELSE IF entry.path = "html_listing"
           THEN \E language \in Languages :
                    Processed(t, entry, _parse_article(entry, FALSE, FALSE, language, language))
           ELSE \E fetched \in BOOLEAN, page_language \in Languages, language \in Languages :
                    Processed(t, entry,
                              _parse_article(entry, TRUE, fetched, page_language, language))
    /\ UNCHANGED <<aux_vars, score_vars, extract_vars, settings, extracted_content, submission,
                   api_calls, verification_requests, source_configuration, scheduled>>

\* the loop over the entries is over: what the task keeps for _update_source_stats
AfterEntries(task, saved) ==
    [task EXCEPT !.pc = "stats", !.steps = <<>>, !.content_dict = NoDoc,
                 !.extracted_count = IF saved = <<TRUE>> THEN @ + 1 ELSE @,
                 !.saved = saved]

\* the extractor returned None: the entry is skipped
SkipEntry(t) ==
    /\ extraction[t].pc = "dropped"
    /\ extraction' = [extraction EXCEPT ![t] = AfterEntries(@, <<>>)]
    /\ UNCHANGED <<aux_vars, score_vars, extract_vars, settings, extracted_content, submission,
                   api_calls, verification_requests, source_configuration, scheduled>>

\* insert_one with no unique index on contentHash
NoUniqueIndex(content_dict) == FALSE

\* insert_one raises DuplicateKeyError: the unique index on contentHash has the hash
DuplicateKeyError(content_dict) ==
    \E i \in DOMAIN extracted_content :
        extracted_content[i].contentHash = content_dict.contentHash

\* insert_one, refused by the unique index on contentHash for a duplicate; what
\* _save_content returns is counted by extract_from_source
_save_content(t) ==
    /\ extraction[t].pc = "save"
    /\ LET content_dict == extraction[t].content_dict
       IN  IF DuplicateKeyError(content_dict)
           THEN /\ extracted_content' = extracted_content
                /\ extraction' = [extraction EXCEPT ![t] = AfterEntries(@, <<FALSE>>)]
           ELSE /\ extracted_content' = Append(extracted_content, content_dict)
                /\ extraction' = [extraction EXCEPT ![t] = AfterEntries(@, <<TRUE>>)]
    /\ UNCHANGED <<aux_vars, score_vars, extract_vars, settings, submission, api_calls,
                   verification_requests, source_configuration, scheduled>>

\* $inc totalExtracted by the extracted_count of the run, which is over
_update_source_stats(t) ==
    /\ extraction[t].pc = "stats"
    /\ source_configuration' =
           [source_configuration EXCEPT ![extraction[t].entry.sourceName].totalExtracted =
                @ + extraction[t].extracted_count]
    /\ extraction' = [extraction EXCEPT ![t] = IdleExtraction]
    /\ UNCHANGED <<aux_vars, score_vars, extract_vars, settings, extracted_content, submission,
                   api_calls, verification_requests, scheduled>>

\* the score is not checked before the submission
NoThresholdCheck(score) == TRUE

\* not (content['preFilterScore'] < settings.submission_score_threshold)
meets_threshold(score) == score >= settings.submission_score_threshold

\* the document is marked submitted whether the call returned or raised
AlwaysSubmitted(ok) == SUBMITTED

\* the status written after create_verification_request returned or raised
status_after_call(ok) == IF ok THEN SUBMITTED ELSE FAILED

\* submit_content returned: on to the next content of the batch, if any
Finish(task) ==
    IF task.queue = <<>> THEN IdleSubmission
    ELSE [IdleSubmission EXCEPT !.pc = "check", !.content_id = Head(task.queue),
                                !.queue = Tail(task.queue)]

\* the ids, in order, of the documents that match the query of submit_pending_content
PendingIds ==
    LET Matching(i) == /\ extracted_content[i].status = PENDING
                       /\ extracted_content[i].preFilterScore
                              >= settings.submission_score_threshold
        ids == SelectSeq([i \in 1..Len(extracted_content) |-> i], Matching)
    IN  SubSeq(ids, 1, Min(Len(ids), max_batch_submission))

\* submit_content read the document: its status and its score decide what is done with it
Checked(task) ==
    LET found == task.content_id \in DOMAIN extracted_content
        content == extracted_content[task.content_id]
    IN  IF ~found THEN Finish(task)
        ELSE IF content.status = SUBMITTED THEN Finish(task)
        ELSE IF ~meets_threshold(content.preFilterScore)
             THEN [task EXCEPT !.pc = "reject", !.result = REJECTED]
        ELSE [task EXCEPT !.pc = "call"]

\* the submit route calls submit_content for an id, 0 standing for an id of no document
SubmitContent(content_id) ==
    /\ submission["submit_route"].pc = "idle"
    /\ submission' = [submission EXCEPT !["submit_route"] =
           Checked([IdleSubmission EXCEPT !.content_id = content_id])]
    /\ UNCHANGED <<aux_vars, score_vars, extract_vars, settings, extracted_content, extraction,
                   api_calls, verification_requests, source_configuration, scheduled>>

\* submit_pending_content queries the pending documents and starts on the first
SubmitPendingContent(t) ==
    /\ submission[t].pc = "idle"
    /\ submission' = [submission EXCEPT ![t] =
           Finish([IdleSubmission EXCEPT !.queue = PendingIds])]
    /\ UNCHANGED <<aux_vars, score_vars, extract_vars, settings, extracted_content, extraction,
                   api_calls, verification_requests, source_configuration, scheduled>>

\* submit_content for the next document of the batch
CheckContent(t) ==
    /\ submission[t].pc = "check"
    /\ submission' = [submission EXCEPT ![t] = Checked(@)]
    /\ UNCHANGED <<aux_vars, score_vars, extract_vars, settings, extracted_content, extraction,
                   api_calls, verification_requests, source_configuration, scheduled>>

\* create_verification_request returns the request AletheiaFact created, or raises
CallAletheia(t) ==
    /\ submission[t].pc = "call"
    /\ \E ok \in BOOLEAN :
           /\ ok => Len(verification_requests) < MaxRequests
           /\ api_calls' = api_calls \cup
                  {[content_id |-> submission[t].content_id, ok |-> ok]}
           /\ verification_requests' =
                  IF ok THEN Append(verification_requests, submission[t].content_id)
                  ELSE verification_requests
           /\ submission' = [submission EXCEPT
                  ![t].pc = "mark",
                  ![t].result = status_after_call(ok),
                  ![t].vr_id = IF ok THEN Len(verification_requests) + 1 ELSE NoRequest]
    /\ UNCHANGED <<aux_vars, score_vars, extract_vars, settings, extracted_content, extraction,
                   source_configuration, scheduled>>

\* update_one: the status decided is written to the document, with the id of the request
\* when it is submitted
UpdateStatus(t) ==
    /\ submission[t].pc \in {"reject", "mark"}
    /\ extracted_content' =
           [extracted_content EXCEPT
               ![submission[t].content_id].status = submission[t].result,
               ![submission[t].content_id].verificationRequestId =
                   IF submission[t].result = SUBMITTED THEN submission[t].vr_id ELSE @]
    /\ submission' = [submission EXCEPT ![t] =
           IF submission[t].result = SUBMITTED THEN [@ EXCEPT !.pc = "count"]
           ELSE Finish(submission[t])]
    /\ UNCHANGED <<aux_vars, score_vars, extract_vars, settings, extraction, api_calls,
                   verification_requests, source_configuration, scheduled>>

\* $inc totalSubmitted of the source of the content that was read
_increment_source_submitted(t) ==
    /\ submission[t].pc = "count"
    /\ source_configuration' =
           [source_configuration EXCEPT
               ![extracted_content[submission[t].content_id].sourceName].totalSubmitted = @ + 1]
    /\ submission' = [submission EXCEPT ![t] = Finish(submission[t])]
    /\ UNCHANGED <<aux_vars, score_vars, extract_vars, settings, extracted_content, extraction,
                   api_calls, verification_requests, scheduled>>

\* a threshold of the settings instance is given another value
SetThreshold(field, value) ==
    /\ settings[field] # value
    /\ settings' = [settings EXCEPT ![field] = value]
    /\ UNCHANGED <<aux_vars, score_vars, extract_vars, extracted_content, extraction, submission,
                   api_calls, verification_requests, source_configuration, scheduled>>

Init == ScoreIdle /\ ExtractIdle /\ PipelineInit /\ AuxIdle

Next ==
    \/ \E t \in ExtractTasks, entry \in Feed : ExtractEntry(t, entry)
    \/ \E t \in ExtractTasks : SkipEntry(t)
    \/ \E t \in ExtractTasks : _save_content(t)
    \/ \E t \in ExtractTasks : _update_source_stats(t)
    \/ \E content_id \in 0..Len(extracted_content) : SubmitContent(content_id)
    \/ SubmitPendingContent("submit_pending")
    \/ CheckContent("submit_pending")
    \/ \E t \in SubmitTasks : CallAletheia(t)
    \/ \E t \in SubmitTasks : UpdateStatus(t)
    \/ \E t \in SubmitTasks : _increment_source_submitted(t)
    \/ \E field \in DOMAIN ThresholdValues : \E value \in ThresholdValues[field] :
           SetThreshold(field, value)

Spec == Init /\ [][Next]_vars

(***************************************************************************)
(* URL normalization (utils/url_normalizer.py)                             *)
(*                                                                         *)
(* A string is a sequence of tokens, a token standing for a run of         *)
(* characters: "utm", "_", "source" for utm_source; "%5F" for an escape.   *)
(* A URL is the record of the parts of its text:                           *)
(*   scheme ":"  "//" netloc  path  ";" params  "?" name=value&..  "#" frag *)
(* with authority telling whether the "//" is there.                       *)
(***************************************************************************)
\* the number of query fields of a URL
MaxParams == 2

\* str.lower() of a token
LowerToken(tok) ==
    CASE tok = "UTM" -> "utm"
      [] tok = "Source" -> "source"
      [] tok = "ID" -> "id"
      [] tok = "HTTP" -> "http"
      [] OTHER -> tok

\* str.lower()
StrLower(str) == [i \in 1..Len(str) |-> LowerToken(str[i])]

\* the character an escape stands for, "+" standing for the space
UnquoteToken(tok) ==
    CASE tok = "%5F" -> "_"
      [] tok = "%20" -> " "
      [] tok = "+" -> " "
      [] tok = "%26" -> "&"
      [] tok = "%3D" -> "="
      [] tok = "%25" -> "%"
      [] tok = "%2B" -> "+"
      [] OTHER -> tok

\* the escapes are left as they are
NoUnquote(str) == str

\* unquote_plus, as parse_qs applies it to names and values
unquote_plus(str) == [i \in 1..Len(str) |-> UnquoteToken(str[i])]

\* the escape of a character that is not safe; an escape read as plain characters has its
\* "%" escaped
QuoteToken(tok) ==
    CASE tok = " " -> <<"+">>
      [] tok = "&" -> <<"%26">>
      [] tok = "=" -> <<"%3D">>
      [] tok = "%" -> <<"%25">>
      [] tok = "+" -> <<"%2B">>
      [] tok = "%5F" -> <<"%25", "5F">>
      [] tok = "%20" -> <<"%25", "20">>
      [] tok = "%26" -> <<"%25", "26">>
      [] tok = "%3D" -> <<"%25", "3D">>
      [] tok = "%25" -> <<"%25", "25">>
      [] tok = "%2B" -> <<"%25", "2B">>
      [] OTHER -> <<tok>>

RECURSIVE quote_plus(_)
\* quote_plus, as urlencode applies it to names and values
quote_plus(str) ==
    IF str = <<>> THEN <<>> ELSE QuoteToken(Head(str)) \o quote_plus(Tail(str))

\* the tokens in the order of their first characters' code points
CodePointOrder ==
    <<" ", "%", "%20", "%25", "%26", "%2B", "%3D", "%5F", "&", "+", "1", "123", "20", "25",
      "26", "2B", "3D", "42", "5F", "7", "=", "ID", "Source", "UTM", "_", "a", "b", "fbclid",
      "id", "medium", "q", "ref", "rss", "source", "utm", "x", "z">>

TokenRank(tok) == CHOOSE i \in 1..Len(CodePointOrder) : CodePointOrder[i] = tok

RECURSIVE StrLess(_, _)
\* str1 < str2
StrLess(str1, str2) ==
    IF str2 = <<>> THEN FALSE
    ELSE IF str1 = <<>> THEN TRUE
    ELSE IF Head(str1) = Head(str2) THEN StrLess(Tail(str1), Tail(str2))
    ELSE TokenRank(Head(str1)) < TokenRank(Head(str2))

TRACKING_PARAMS ==
    { <<"utm", "_", "source">>, <<"utm", "_", "medium">>, <<"utm", "_", "campaign">>,
      <<"utm", "_", "content">>, <<"utm", "_", "term">>,
      <<"fbclid">>, <<"gclid">>, <<"msclkid">>,
      <<"ref">>, <<"source">>, <<"campaign">>,
      <<"_", "ga">>, <<"_", "gl">> }

\* urlparse raises ValueError for a netloc with one bracket only
InvalidNetloc(netloc) ==
    (\E i \in 1..Len(netloc) : netloc[i] = "[") # (\E i \in 1..Len(netloc) : netloc[i] = "]")

\* urlparse(url): the scheme in lower case, the parts, or the exception
urlparse(url) ==
    IF url.authority /\ InvalidNetloc(url.netloc)
    THEN [raised |-> "ValueError"]
    ELSE [scheme |-> LowerToken(url.scheme),
          netloc |-> IF url.authority THEN url.netloc ELSE <<>>,
          path |-> url.path, params |-> url.params,
          query |-> url.query, fragment |-> url.fragment]

\* the values of the fields of the query named key, in their order
ValuesOf(fields, key) ==
    LET Named(field) == field[1] = key
        named == SelectSeq(fields, Named)
    IN  [i \in 1..Len(named) |-> named[i][2]]

RECURSIVE Keys(_)
\* the names of the fields in the order of their first occurrence
Keys(fields) ==
    IF fields = <<>> THEN <<>>
    ELSE LET rest == Keys(SubSeq(fields, 1, Len(fields) - 1))
             key == fields[Len(fields)][1]
         IN  IF \E i \in 1..Len(rest) : rest[i] = key THEN rest ELSE Append(rest, key)

\* parse_qs(query, keep_blank_values=False): the fields with a value, unquoted, as a
\* dictionary in insertion order from each name to the list of its values
parse_qs(query) ==
    LET NotBlank(field) == field[2] # <<>>
        kept == SelectSeq(query, NotBlank)
        fields == [i \in 1..Len(kept) |->
                       <<unquote_plus(kept[i][1]), unquote_plus(kept[i][2])>>]
        keys == Keys(fields)
    IN  [i \in 1..Len(keys) |-> <<keys[i], ValuesOf(fields, keys[i])>>]

\* no parameter is removed
KeepAll(query_params) == query_params

\* {k: v for k, v in query_params.items() if k.lower() not in TRACKING_PARAMS}
clean_params(query_params) ==
    LET Clean(item) == StrLower(item[1]) \notin TRACKING_PARAMS
    IN  SelectSeq(query_params, Clean)

RECURSIVE SortItems(_)
\* sorted(clean_params.items()): by name, the names of a dictionary being distinct
SortItems(items) ==
    IF items = <<>> THEN <<>>
    ELSE LET first == CHOOSE i \in 1..Len(items) :
                          \A j \in 1..Len(items) : ~StrLess(items[j][1], items[i][1])
             Other(item) == item # items[first]
         IN  <<items[first]>> \o SortItems(SelectSeq(items, Other))

RECURSIVE urlencode(_)
\* urlencode(items, doseq=True): one field for every value of every name
urlencode(items) ==
    IF items = <<>> THEN <<>>
    ELSE LET name == Head(items)[1]
             values == Head(items)[2]
         IN  [i \in 1..Len(values) |-> <<quote_plus(name), quote_plus(values[i])>>]
                 \o urlencode(Tail(items))

\* the schemes of urllib.parse.uses_netloc among the schemes of the model
uses_netloc == {"ftp", "http", "https"}

\* urlunparse: "//" is written before a netloc, and before the path of a scheme that uses a
\* netloc, a path that is then made to start with "/"
urlunparse(scheme, netloc, path, params, query, fragment) ==
    LET authority == netloc # <<>> \/ scheme \in uses_netloc
        rooted == IF authority /\ path # <<>> /\ Head(path) # "/"
                  THEN <<"/">> \o path ELSE path
    IN  [scheme |-> scheme, authority |-> authority, netloc |-> netloc, path |-> rooted,
         params |-> params, query |-> query, fragment |-> fragment]

\* the scheme is kept as it is
KeepScheme(scheme) == scheme

\* 'https' if parsed.scheme == 'http' else parsed.scheme
upgrade_scheme(scheme) == IF scheme = "http" THEN "https" ELSE scheme

\* the empty string
EmptyUrl ==
    [scheme |-> "", authority |-> FALSE, netloc |-> <<>>, path |-> <<>>, params |-> "",
     query |-> <<>>, fragment |-> ""]

\* the URL rebuilt from its parts
Rebuilt(parsed) ==
    urlunparse(upgrade_scheme(parsed.scheme), parsed.netloc, parsed.path, parsed.params,
               urlencode(SortItems(clean_params(parse_qs(parsed.query)))), "")

\* the result of normalize_url when urlparse gave parsed
Normalized(url, parsed) ==
    IF "raised" \in DOMAIN parsed THEN url ELSE Rebuilt(parsed)

normalize_url(url) ==
    IF url = EmptyUrl THEN url ELSE Normalized(url, urlparse(url))

(***************************************************************************)
(* URL specification: normalize_url over bounded inputs                    *)
(***************************************************************************)
(* The query fields of the model:
     utm_source=rss  UTM_Source=x  utm%5Fmedium=1  utm_id=42  fbclid=1  ref=1
     id=123  id=7  ID=1  b=  q=a%20x  q=a+x  z=x%26ref%3D1
*)
QueryFields ==
    { <<<<"utm", "_", "source">>, <<"rss">>>>, <<<<"UTM", "_", "Source">>, <<"x">>>>,
      <<<<"utm", "%5F", "medium">>, <<"1">>>>, <<<<"utm", "_", "id">>, <<"42">>>>,
      <<<<"fbclid">>, <<"1">>>>, <<<<"ref">>, <<"1">>>>,
      <<<<"id">>, <<"123">>>>, <<<<"id">>, <<"7">>>>, <<<<"ID">>, <<"1">>>>,
      <<<<"b">>, <<>>>>,
      <<<<"q">>, <<"a", "%20", "x">>>>, <<<<"q">>, <<"a", "+", "x">>>>,
      <<<<"z">>, <<"x", "%26", "ref", "%3D", "1">>>> }

Schemes == {"http", "HTTP", "https", "ftp", "mailto", ""}

(* What follows the scheme, before the query:
     //site.com/a   //site.com/a;p   //site.com   //[::1/a (urlparse raises)   //[::1]/a
     a   /a   and nothing
*)
Locations ==
    { [authority |-> TRUE, netloc |-> <<"site.com">>, path |-> <<"/", "a">>, params |-> ""],
      [authority |-> TRUE, netloc |-> <<"site.com">>, path |-> <<"/", "a">>, params |-> "p"],
      [authority |-> TRUE, netloc |-> <<"site.com">>, path |-> <<>>, params |-> ""],
      [authority |-> TRUE, netloc |-> <<"[", "::1">>, path |-> <<"/", "a">>, params |-> ""],
      [authority |-> TRUE, netloc |-> <<"[", "::1", "]">>, path |-> <<"/", "a">>,
       params |-> ""],
      [authority |-> FALSE, netloc |-> <<>>, path |-> <<"a">>, params |-> ""],
      [authority |-> FALSE, netloc |-> <<>>, path |-> <<"/", "a">>, params |-> ""],
      [authority |-> FALSE, netloc |-> <<>>, path |-> <<>>, params |-> ""] }

Fragments == {"", "sec"}

\* the queries of at most n fields
Queries(n) == UNION { [1..m -> QueryFields] : m \in 0..n }

Url(scheme, location, query, fragment) ==
    [scheme |-> scheme, authority |-> location.authority, netloc |-> location.netloc,
     path |-> location.path, params |-> location.params, query |-> query,
     fragment |-> fragment]

InitUrl ==
    /\ \E scheme \in Schemes, location \in Locations, query \in Queries(MaxParams),
          fragment \in Fragments :
           /\ fragment # "" => location.params # ""
           /\ nu_in = [url |-> Url(scheme, location, query, fragment)]
    /\ nu_out = <<>>
    /\ HashIdle
    /\ AuthIdle
    /\ ScoreIdle
    /\ ExtractIdle
    /\ PipelineInit

\* normalize_url is called with the URL
NormalizeUrl ==
    /\ nu_out = <<>>
    /\ nu_out' = <<normalize_url(nu_in.url)>>
    /\ UNCHANGED <<nu_in, hash_vars, auth_vars, score_vars, extract_vars, pipeline_vars>>

\* normalize_url is called with the URL it returned
NormalizeAgain ==
    /\ Len(nu_out) = 1
    /\ nu_out' = Append(nu_out, normalize_url(nu_out[1]))
    /\ UNCHANGED <<nu_in, hash_vars, auth_vars, score_vars, extract_vars, pipeline_vars>>

NextUrl == NormalizeUrl \/ NormalizeAgain

SpecUrl == InitUrl /\ [][NextUrl]_vars

\* the text of a URL as a string
UrlText(url) ==
    (IF url.scheme = "" THEN <<>> ELSE <<url.scheme, ":">>)
        \o (IF url.authority THEN <<"//">> \o url.netloc ELSE <<>>)
        \o url.path
        \o (IF url.params = "" THEN <<>> ELSE <<";", url.params>>)
        \o (IF url.query = <<>> THEN <<>> ELSE <<"?", url.query>>)
        \o (IF url.fragment = "" THEN <<>> ELSE <<"#", url.fragment>>)

\* the contents of the entries
EntryContents == { <<"c">>, <<"b", "  ", "c">> }

(***************************************************************************)
(* Hash specification: generate_content_hash for two inputs                *)
(***************************************************************************)
HashUrls ==
    { <<"https://site.com/a">>, <<"https://site.com/a", "|", "b">>, <<"https://site.com/x">> }

HashContents ==
    { <<"c">>, <<"b", "|", "c">>, <<"b", " ", "c">>, <<"b", "  ", "c">>,
      <<" ", "b", "\t", "c", "  ">>, <<"b", "  ", " ", "c">>, <<>> }

HashInputs == [url : HashUrls, content : HashContents]

InitHash ==
    /\ \E x \in HashInputs, y \in HashInputs : hs_in = [a |-> x, b |-> y]
    /\ hs_out = NoResult
    /\ UrlIdle
    /\ AuthIdle
    /\ ScoreIdle
    /\ ExtractIdle
    /\ PipelineInit

\* generate_content_hash is called for the one input and for the other
GenerateContentHash ==
    /\ hs_out = NoResult
    /\ hs_out' = [a |-> generate_content_hash(hs_in.a.url, hs_in.a.content),
                  b |-> generate_content_hash(hs_in.b.url, hs_in.b.content)]
    /\ UNCHANGED <<hs_in, url_vars, auth_vars, score_vars, extract_vars, pipeline_vars>>

NextHash == GenerateContentHash

SpecHash == InitHash /\ [][NextHash]_vars

(***************************************************************************)
(* OryAuthService (app/services/ory_auth.py)                               *)
(***************************************************************************)
\* calls of get_access_token in one behaviour
MaxCalls == 6

\* timedelta(seconds=60): the margin before expiry
Margin == 60

\* token_data.get("expires_in", 3600)
DefaultExpiresIn == 3600

\* expires_in of a token response: the margin itself, half a minute more, the default
Lifetimes == {Margin, Margin + 30, DefaultExpiresIn}

\* the clock is read every half minute, up to MaxTime
TickSeconds == 30

MaxTime == 60

\* the lock is taken at once by a caller that finds it neither held nor awaited
AlwaysFree(lock) == TRUE

\* asyncio.Lock.acquire() returns without waiting
can_acquire(lock) == ~lock.locked /\ lock.waiters = <<>>

\* the token counts as valid until it expires
NoMargin(access_token, token_expires_at, utcnow) ==
    IF access_token = NoToken \/ token_expires_at = NoTime
    THEN FALSE
    ELSE utcnow < token_expires_at

_is_token_valid(access_token, token_expires_at, utcnow) ==
    IF access_token = NoToken \/ token_expires_at = NoTime
    THEN FALSE
    ELSE utcnow < token_expires_at - Margin

\* callers inside get_access_token
Inside == {c \in Callers : callers[c] # "idle"}

\* callers whose token request is in flight
InFlight == {c \in Callers : callers[c] = "requesting"}

\* the lock and the callers after caller c left the async with block: the first waiter
\* is woken and holds the lock when it runs
Released(c) ==
    IF _token_lock.waiters = <<>>
    THEN [lock |-> [locked |-> FALSE, waiters |-> <<>>],
          callers |-> [callers EXCEPT ![c] = "idle"]]
    ELSE [lock |-> [locked |-> TRUE, waiters |-> Tail(_token_lock.waiters)],
          callers |-> [callers EXCEPT ![c] = "idle",
                                      ![Head(_token_lock.waiters)] = "woken"]]

\* the callers that meet the refresh caller c starts: c and those waiting for the lock
Meeting(c) == Inside \cup {c}

\* the record of the refresh after caller c sent a token request
Requested(c) ==
    IF burst.pending = {}
    THEN [pending |-> Meeting(c), size |-> Cardinality(Meeting(c)), open |-> TRUE,
          requests |-> 1, lifetime |-> 0, token |-> NoToken, tokens |-> {}]
    ELSE [burst EXCEPT !.requests = @ + 1]

\* the record of the refresh after caller c returned the token
Returned(c, token) ==
    IF c \in burst.pending
    THEN [burst EXCEPT !.pending = @ \ {c}, !.tokens = @ \cup {token}, !.open = FALSE]
    ELSE burst

\* caller c holds the lock: it returns the cached token or sends the token request
Locked(c) ==
    IF _is_token_valid(_access_token, _token_expires_at, now)
    THEN /\ _token_lock' = Released(c).lock
         /\ callers' = Released(c).callers
         /\ burst' = Returned(c, _access_token)
    ELSE /\ _token_lock' = [_token_lock EXCEPT !.locked = TRUE]
         /\ callers' = [callers EXCEPT ![c] = "requesting"]
         /\ burst' = Requested(c)

\* get_access_token(), up to its first wait: for the lock or for the token response
GetAccessToken(c) ==
    /\ callers[c] = "idle"
    /\ calls < MaxCalls
    /\ calls' = calls + 1
    /\ IF can_acquire(_token_lock)
       THEN Locked(c)
       ELSE /\ _token_lock' = [_token_lock EXCEPT !.waiters = Append(@, c)]
            /\ callers' = [callers EXCEPT ![c] = "waiting"]
            /\ burst' = IF burst.open
                        THEN [burst EXCEPT !.pending = @ \cup {c}, !.size = @ + 1]
                        ELSE burst
    /\ UNCHANGED <<now, _access_token, _token_expires_at, issued>>
    /\ UNCHANGED <<url_vars, hash_vars, score_vars, extract_vars, pipeline_vars>>

\* a caller that waited for the lock runs again, holding it
Resume(c) ==
    /\ callers[c] = "woken"
    /\ Locked(c)
    /\ UNCHANGED <<now, _access_token, _token_expires_at, calls, issued>>
    /\ UNCHANGED <<url_vars, hash_vars, score_vars, extract_vars, pipeline_vars>>

\* the response is 200: the token is cached with its expiry and returned
TokenGenerated(c) ==
    /\ callers[c] = "requesting"
    /\ \E expires_in \in Lifetimes :
        /\ issued' = issued + 1
        /\ _access_token' = issued + 1
        /\ _token_expires_at' = now + expires_in
        /\ _token_lock' = Released(c).lock
        /\ callers' = Released(c).callers
        /\ burst' = IF burst.open
                    THEN [Returned(c, issued + 1) EXCEPT !.lifetime = expires_in,
                                                         !.token = issued + 1]
                    ELSE Returned(c, issued + 1)
    /\ UNCHANGED <<now, calls>>
    /\ UNCHANGED <<url_vars, hash_vars, score_vars, extract_vars, pipeline_vars>>

\* the exception leaves the caller holding the lock
FailedHoldingLock(c) ==
    /\ callers[c] = "requesting"
    /\ callers' = [callers EXCEPT ![c] = "idle"]
    /\ burst' = [burst EXCEPT !.pending = @ \ {c}, !.open = FALSE]
    /\ UNCHANGED <<now, _access_token, _token_expires_at, _token_lock, calls, issued>>
    /\ UNCHANGED <<url_vars, hash_vars, score_vars, extract_vars, pipeline_vars>>

\* another status, a timeout or a network error: the exception leaves get_access_token
TokenFailed(c) ==
    /\ callers[c] = "requesting"
    /\ _token_lock' = Released(c).lock
    /\ callers' = Released(c).callers
    /\ burst' = [burst EXCEPT !.pending = @ \ {c}, !.open = FALSE]
    /\ UNCHANGED <<now, _access_token, _token_expires_at, calls, issued>>
    /\ UNCHANGED <<url_vars, hash_vars, score_vars, extract_vars, pipeline_vars>>

\* time passes while a token request is in flight or nobody is inside get_access_token;
\* a woken waiter runs before the clock is read again
Tick ==
    /\ now < MaxTime
    /\ InFlight # {} \/ Inside = {}
    /\ now' = now + TickSeconds
    /\ UNCHANGED <<_access_token, _token_expires_at, _token_lock, callers, calls, issued, burst>>
    /\ UNCHANGED <<url_vars, hash_vars, score_vars, extract_vars, pipeline_vars>>

InitAuth == AuthIdle /\ UrlIdle /\ HashIdle /\ ScoreIdle /\ ExtractIdle /\ PipelineInit

NextAuth ==
    \/ \E c \in Callers : GetAccessToken(c)
    \/ \E c \in Callers : Resume(c)
    \/ \E c \in Callers : TokenGenerated(c)
    \/ \E c \in Callers : TokenFailed(c)
    \/ Tick

SpecAuth == InitAuth /\ [][NextAuth]_vars

\* ---------------------------------------------------------------------------------------
\* The scheduled job, the manual triggers and the toggle of automatic submission
\* ---------------------------------------------------------------------------------------

\* the tasks that run extract_from_source: the scheduled job and the trigger of the routes
RunExtractTasks == {ScheduledJob, "trigger_extraction"}

\* the tasks that run submit_content: the scheduled batch, the manual batch, the retry route
RunSubmitTasks == {ScheduledJob, "submit_pending", "submit_route"}

\* the entries the active sources hold during the runs
RunFeed == { entry \in Feed : entry.url \in {"u_boato", "u_poder"} }

\* the flag as the environment gave it when the process started
StartupFlag(config) == DefaultSettings.auto_submit_enabled

\* settings.auto_submit_enabled, read from the settings instance
auto_submit_enabled(config) == config.auto_submit_enabled

\* the interval trigger fires; max_instances=1 lets one instance of the job run
scheduled_extraction ==
    /\ scheduled.pc = "idle"
    /\ scheduled' = [scheduled EXCEPT !.pc = "extracting"]
    /\ UNCHANGED <<aux_vars, score_vars, extract_vars, settings, extracted_content, extraction,
                   submission, api_calls, verification_requests, source_configuration>>

\* extract_all_sources returned: the flag is read, and submit_pending_content is called
\* when it is set
AfterExtraction ==
    /\ scheduled.pc = "extracting"
    /\ extraction[ScheduledJob].pc = "idle"
    /\ IF auto_submit_enabled(settings)
       THEN /\ scheduled' = [scheduled EXCEPT !.pc = "submitting"]
            /\ submission' = [submission EXCEPT ![ScheduledJob] =
                   Finish([IdleSubmission EXCEPT !.queue = PendingIds])]
       ELSE /\ scheduled' = IdleJob
            /\ submission' = submission
    /\ UNCHANGED <<aux_vars, score_vars, extract_vars, settings, extracted_content, extraction,
                   api_calls, verification_requests, source_configuration>>

\* submit_pending_content returned: the job is over
AfterSubmission ==
    /\ scheduled.pc = "submitting"
    /\ submission[ScheduledJob].pc = "idle"
    /\ scheduled' = IdleJob
    /\ UNCHANGED <<aux_vars, score_vars, extract_vars, settings, extracted_content, extraction,
                   submission, api_calls, verification_requests, source_configuration>>

\* POST /auto-submit/toggle
toggle_auto_submit(enabled) ==
    /\ settings' = [settings EXCEPT !.auto_submit_enabled = enabled]
    /\ UNCHANGED <<aux_vars, score_vars, extract_vars, extracted_content, extraction, submission,
                   api_calls, verification_requests, source_configuration, scheduled>>

InitRuns == ScoreIdle /\ ExtractIdle /\ PipelineAtRest(RunExtractTasks, RunSubmitTasks) /\ AuxIdle

NextRuns ==
    \/ scheduled_extraction
    \/ AfterExtraction
    \/ AfterSubmission
    \/ \E enabled \in BOOLEAN : toggle_auto_submit(enabled)
    \/ \E t \in RunExtractTasks, entry \in RunFeed : ExtractEntry(t, entry)
    \/ \E t \in RunExtractTasks : SkipEntry(t)
    \/ \E t \in RunExtractTasks : _save_content(t)
    \/ \E t \in RunExtractTasks : _update_source_stats(t)
    \/ \E content_id \in 0..Len(extracted_content) : SubmitContent(content_id)
    \/ SubmitPendingContent("submit_pending")
    \/ \E t \in {ScheduledJob, "submit_pending"} : CheckContent(t)
    \/ \E t \in RunSubmitTasks : CallAletheia(t)
    \/ \E t \in RunSubmitTasks : UpdateStatus(t)
    \/ \E t \in RunSubmitTasks : _increment_source_submitted(t)

SpecRuns == InitRuns /\ [][NextRuns]_vars

(***************************************************************************)
(* Properties of the pre-filter score (SpecScore)                          *)
(***************************************************************************)
\* C1: the total of every breakdown calculate_score returns is the sum of its four parts,
\* floored at 0
TotalIsFlooredSum ==
    pf_out # NoResult =>
        pf_out.total = Max(0, pf_out.content_quality + pf_out.fact_checkable
                              + pf_out.source_risk + pf_out.topic_penalty)

\* a breakdown whose parts sum to less than 0
NegativeSumScored ==
    /\ pf_out # NoResult
    /\ pf_out.content_quality + pf_out.fact_checkable
         + pf_out.source_risk + pf_out.topic_penalty < 0
    /\ pf_out.total = 0

\* C2: in every breakdown content_quality is in 0..20, fact_checkable in 0..30, source_risk
\* in 3..10, topic_penalty in -40..0 and total is at least 0
SubScoresInRange ==
    pf_out # NoResult =>
        /\ pf_out.content_quality \in 0..20
        /\ pf_out.fact_checkable \in 0..30
        /\ pf_out.source_risk \in 3..10
        /\ pf_out.topic_penalty \in -40..0
        /\ pf_out.total >= 0

\* a text with the entertainment and the sports penalty both at their heaviest tier
BothPenaltiesHeaviest ==
    /\ pf_out # NoResult
    /\ entertainment_penalty(Lower(Concat(pf_in.title, pf_in.content))) = 35
    /\ sports_penalty(Lower(Concat(pf_in.title, pf_in.content))) = 25
    /\ pf_out.topic_penalty = -40

(***************************************************************************)
(* Properties of the sentence scores and the excerpt (SpecExtract)         *)
(***************************************************************************)
\* C7: a sentence that matches a noise pattern scores exactly -100 whatever else it holds,
\* and no sentence of an excerpt matches a noise pattern
NoiseScoresMinus100 ==
    /\ (sn_out # NoResult /\ Matches("NOISE_PATTERNS", sn_in.sentence)) => sn_out.score = -100
    /\ ex_out # NoResult =>
           \A k \in 1..Len(ex_out.excerpt) : ~Matches("NOISE_PATTERNS", ex_out.excerpt[k])

\* a noise sentence with an attribution and a figure in it has been scored
NoisyClaimScored ==
    /\ sn_out # NoResult
    /\ Matches("NOISE_PATTERNS", sn_in.sentence)
    /\ has_attribution(sn_in.sentence)
    /\ sentence_has_data(sn_in.sentence)
    /\ checkability_score(sn_in.sentence) > 0
    /\ sn_out.score = -100

\* C8: the excerpt extract_checkable_content returns is at most max_chars long
ExcerptWithinBudget ==
    ex_out # NoResult => ExcerptLen(ex_out.excerpt) <= ex_in.max_chars

Extracted(t) == extraction[t].pc = "idle" /\ extraction'[t].pc # "idle"

\* C3: an extractor hands an article to persistence only with a total of at least
\* minimum_save_score, as pending when the total is at least submission_score_threshold and
\* as rejected otherwise, and only what an extractor handed on is inserted
HandedOnAboveMinimum ==
    [][/\ \A t \in ExtractTasks :
              (Extracted(t) /\ extraction'[t].pc = "save") =>
                  LET content_dict == extraction'[t].content_dict
                      last == extraction'[t].steps[Len(extraction'[t].steps)]
                  IN  /\ last.outcome = "kept"
                      /\ content_dict.preFilterScore = last.total
                      /\ content_dict.preFilterScore >= settings.minimum_save_score
                      /\ content_dict.status \in {PENDING, REJECTED}
                      /\ content_dict.status = PENDING
                             <=> content_dict.preFilterScore
                                     >= settings.submission_score_threshold
       /\ extracted_content' # extracted_content /\ Len(extracted_content') > Len(extracted_content)
              => \E t \in ExtractTasks :
                     /\ extraction[t].pc = "save"
                     /\ extracted_content'
                            = Append(extracted_content, extraction[t].content_dict)
      ]_vars

\* an article between the two thresholds is handed on as rejected
BetweenThresholdsRetained ==
    \E t \in ExtractTasks :
        /\ extraction[t].pc = "save"
        /\ extraction[t].content_dict.status = REJECTED
        /\ extraction[t].content_dict.preFilterScore >= settings.minimum_save_score
        /\ extraction[t].content_dict.preFilterScore < settings.submission_score_threshold

\* the submission task t is handling the document content_id
Handling(t, content_id) ==
    submission[t].pc # "idle" /\ submission[t].content_id = content_id

\* C4: create_verification_request is called for a document only when its score is at least
\* the submission_score_threshold in force at the check, a document becomes submitted only
\* after such a call returned, and a document found below the threshold is set to rejected
\* with no call made
CalledOnlyAboveThreshold ==
    [][/\ \A t \in SubmitTasks :
              /\ (submission[t].pc # "call" /\ submission'[t].pc = "call") =>
                     /\ submission'[t].content_id \in DOMAIN extracted_content
                     /\ extracted_content[submission'[t].content_id].preFilterScore
                            >= settings.submission_score_threshold
              /\ (submission[t].pc # "reject" /\ submission'[t].pc = "reject") =>
                     /\ extracted_content[submission'[t].content_id].preFilterScore
                            < settings.submission_score_threshold
                     /\ api_calls' = api_calls
              /\ (submission[t].pc # "mark" /\ submission'[t].pc = "mark") =>
                     /\ submission[t].pc = "call"
                     /\ submission'[t].content_id = submission[t].content_id
              /\ (submission[t].pc = "reject" /\ submission'[t] # submission[t]) =>
                     /\ extracted_content'[submission[t].content_id].status = REJECTED
                     /\ api_calls' = api_calls
       /\ api_calls' # api_calls =>
              \E t \in SubmitTasks, ok \in BOOLEAN :
                  /\ submission[t].pc = "call"
                  /\ api_calls' = api_calls \cup
                         {[content_id |-> submission[t].content_id, ok |-> ok]}
       /\ \A content_id \in DOMAIN extracted_content :
              (/\ extracted_content[content_id].status # SUBMITTED
               /\ extracted_content'[content_id].status = SUBMITTED) =>
                  \E t \in SubmitTasks :
                      /\ Handling(t, content_id)
                      /\ submission[t].pc = "mark"
                      /\ [content_id |-> content_id, ok |-> TRUE] \in api_calls
      ]_vars

\* a pending document is found below the threshold at submission, no call made for it
PendingFoundBelowThreshold ==
    \E t \in SubmitTasks :
        /\ submission[t].pc = "reject"
        /\ extracted_content[submission[t].content_id].status = PENDING
        /\ extracted_content[submission[t].content_id].preFilterScore
               < settings.submission_score_threshold
        /\ \A call \in api_calls : call.content_id # submission[t].content_id

\* C5: every classification is made with the thresholds the settings hold at that call: the
\* save or skip decision and the pending or rejected status of an extraction, and the check
\* of the score at a submission
ThresholdsReadAtCall ==
    [][/\ \A t \in ExtractTasks :
              Extracted(t) =>
                  \A i \in 1..Len(extraction'[t].steps) :
                      LET step == extraction'[t].steps[i]
                      IN  step.total >= 0 =>
                              /\ step.outcome = "kept"
                                     <=> step.total >= settings.minimum_save_score
                              /\ step.outcome = "kept" =>
                                     extraction'[t].content_dict.status
                                         = IF step.total >= settings.submission_score_threshold
                                           THEN PENDING ELSE REJECTED
       /\ \A t \in SubmitTasks :
              (submission[t].pc \in {"idle", "check"} /\ submission'[t] # submission[t]
               /\ submission'[t].pc \in {"call", "reject"}) =>
                  (submission'[t].pc = "call"
                       <=> extracted_content[submission'[t].content_id].preFilterScore
                               >= settings.submission_score_threshold)
      ]_vars

\* after the threshold was lowered an article below the default threshold is handed on as
\* pending
LoweredThresholdApplied ==
    /\ settings.submission_score_threshold < DefaultSettings.submission_score_threshold
    /\ \E t \in ExtractTasks :
           /\ extraction[t].pc = "save"
           /\ extraction[t].content_dict.status = PENDING
           /\ extraction[t].content_dict.preFilterScore
                  < DefaultSettings.submission_score_threshold

RawContent(entry, step) == IF step.stage = "full" THEN entry.page ELSE entry.summary

\* no sentence of the raw content has a score above 0
NoPositiveSentence(raw_content) ==
    LET segments == Flatten(raw_content)
    IN  \A i \in 1..Len(segments) :
            RenderLen(segments[i]) >= 30 => score_sentence(segments[i]) <= 0

\* the steps of the extraction t that read content with no sentence of a positive score
EmptySteps(t) ==
    { i \in 1..Len(extraction[t].steps) :
          /\ extraction[t].steps[i].outcome # "fetch_failed"
          /\ NoPositiveSentence(RawContent(extraction[t].entry, extraction[t].steps[i])) }

\* C10 as stated: content with no sentence of a positive score gives the empty excerpt and
\* the extractor drops the article without scoring or persisting it
EmptyExcerptDropsArticle ==
    \A t \in ExtractTasks :
        \A i \in EmptySteps(t) :
            /\ extraction[t].steps[i].content = <<>>
            /\ extraction[t].pc = "dropped"
            /\ \A j \in 1..Len(extraction[t].steps) : extraction[t].steps[j].total = -1

\* C10: content with no sentence of a positive score gives the empty excerpt, which is neither
\* scored nor persisted: the feed extractor and the extractor of a listing excerpt drop the
\* article, the extractor of a full article goes on to the listing excerpt in its place
EmptyExcerptNotScored ==
    /\ \A t \in ExtractTasks :
           \A i \in EmptySteps(t) :
               LET step == extraction[t].steps[i]
               IN  /\ step.content = <<>>
                   /\ step.total = -1
                   /\ step.outcome = "too_short"
                   /\ step.stage \in {"rss", "listing"} =>
                          /\ i = Len(extraction[t].steps)
                          /\ extraction[t].pc = "dropped"
                          /\ extraction[t].content_dict = NoDoc
                   /\ step.stage = "full" =>
                          /\ i < Len(extraction[t].steps)
                          /\ extraction[t].steps[i + 1].stage = "listing"
    /\ \A content_id \in DOMAIN extracted_content :
           extracted_content[content_id].content # <<>>

\* the feed extractor dropped an entry whose content gave the empty excerpt, unscored
EmptyEntryDropped ==
    \E t \in ExtractTasks :
        /\ extraction[t].pc = "dropped"
        /\ extraction[t].entry.path = "rss"
        /\ EmptySteps(t) = {1}
        /\ extraction[t].steps[1].total = -1

(***************************************************************************)
(* Properties of normalize_url (SpecUrl) and generate_content_hash         *)
(* (SpecHash)                                                              *)
(***************************************************************************)
\* C11: normalize_url applied to its own result returns that result
NormalizeIsIdempotent == Len(nu_out) = 2 => nu_out[2] = nu_out[1]

\* a URL with a tracking field and a fragment was changed by normalize_url and its result
\* then left as it was
ChangedOnceOnly ==
    /\ Len(nu_out) = 2
    /\ nu_in.url.fragment # ""
    /\ \E i \in 1..Len(nu_in.url.query) : nu_in.url.query[i][1] = <<"utm", "_", "source">>
    /\ nu_out[1] # nu_in.url
    /\ nu_out[2] = nu_out[1]

\* the name of a query field as a reader of the URL takes it: unquoted, in lower case
FieldName(field) == StrLower(unquote_plus(field[1]))

\* a name that starts with utm_ or is one of the other tracking names
IsTrackingName(name) ==
    \/ Len(name) >= 2 /\ name[1] = "utm" /\ name[2] = "_"
    \/ name \in { <<"fbclid">>, <<"gclid">>, <<"msclkid">>, <<"ref">>, <<"source">>,
                  <<"campaign">>, <<"_", "ga">>, <<"_", "gl">> }

\* C12 as stated: no result of normalize_url has a query field with a tracking name
NoTrackingParamInOutput ==
    \A n \in 1..Len(nu_out) :
        \A i \in 1..Len(nu_out[n].query) : ~IsTrackingName(FieldName(nu_out[n].query[i]))

\* urlparse accepts the URL
Parses(url) == "raised" \notin DOMAIN urlparse(url)

\* C13 as stated: the result has scheme https when the URL parses and is the URL unchanged
\* when it does not
SchemeHttpsOrUnchanged ==
    Len(nu_out) >= 1 =>
        IF Parses(nu_in.url) THEN nu_out[1].scheme = "https" ELSE nu_out[1] = nu_in.url

\* C13: normalize_url returns a URL and raises nothing; when the URL parses the result has
\* scheme https for the schemes http and https, in any letter case, and the scheme of the URL
\* for every other scheme and for none; when the URL does not parse the result is the URL
SchemeUpgradedOrKept ==
    Len(nu_out) >= 1 =>
        /\ "raised" \notin DOMAIN nu_out[1]
        /\ Parses(nu_in.url) =>
               /\ nu_in.url.scheme \in {"http", "HTTP", "https"} =>
                      nu_out[1].scheme = "https"
               /\ nu_in.url.scheme \in {"ftp", "mailto", ""} =>
                      nu_out[1].scheme = nu_in.url.scheme
        /\ ~Parses(nu_in.url) => nu_out[1] = nu_in.url

\* an ftp URL lost its tracking field and kept its scheme
FtpSchemeKept ==
    /\ Len(nu_out) >= 1
    /\ nu_in.url.scheme = "ftp"
    /\ nu_out[1] # nu_in.url
    /\ nu_out[1].scheme = "ftp"

\* the URL with one more query field at place n
WithField(url, field, n) ==
    [url EXCEPT !.query = SubSeq(url.query, 1, n - 1) \o <<field>>
                              \o SubSeq(url.query, n, Len(url.query))]

\* the URLs that have one utm_source field more than the URL, with any value, at any place
WithUtmSource(url) ==
    { WithField(url, <<<<"utm", "_", "source">>, value>>, n) :
          value \in {<<"rss">>, <<"x">>, <<>>}, n \in 1..(Len(url.query) + 1) }

\* the two normalized URLs are the same string and give the same hash with the same content
SameKey(url1, url2) ==
    /\ url1 = url2
    /\ \A content \in EntryContents :
           generate_content_hash(UrlText(url1), content)
               = generate_content_hash(UrlText(url2), content)

\* C14 as stated: URLs that differ by a utm_source field only normalize to the same string
\* and give the same content hash
UtmSourceIgnored ==
    Len(nu_out) = 1 =>
        \A link \in WithUtmSource(nu_in.url) : SameKey(normalize_url(link), nu_out[1])

\* C14: URLs that urlparse accepts and that differ by a utm_source field only normalize to
\* the same string and give the same content hash
UtmSourceIgnoredWhenParsed ==
    (Len(nu_out) = 1 /\ Parses(nu_in.url)) =>
        \A link \in WithUtmSource(nu_in.url) :
            Parses(link) /\ SameKey(normalize_url(link), nu_out[1])

\* a URL with a utm_source field and another field normalizes to what the URL without the
\* utm_source field normalizes to
WithAndWithoutAgree ==
    /\ Len(nu_out) >= 1
    /\ Parses(nu_in.url)
    /\ nu_in.url.query = << <<<<"utm", "_", "source">>, <<"rss">>>>, <<<<"id">>, <<"123">>>> >>
    /\ nu_out[1].query = << <<<<"id">>, <<"123">>>> >>
    /\ nu_out[1] = normalize_url([nu_in.url EXCEPT !.query = Tail(nu_in.url.query)])

\* C15 as stated: two inputs have the same hash exactly when their URLs are equal and their
\* contents are equal once runs of whitespace are collapsed
HashSeparatesInputs ==
    hs_out # NoResult =>
        (hs_out.a = hs_out.b
             <=> /\ hs_in.a.url = hs_in.b.url
                 /\ normalized_content(hs_in.a.content) = normalized_content(hs_in.b.content))

(***************************************************************************)
(* Source risk and the sports penalty                                      *)
(***************************************************************************)
\* the table of the configured credibility levels: low 10, medium 5, high 3, anything else 10
ConfiguredRisk(credibility_level) ==
    CASE credibility_level = "low" -> 10
      [] credibility_level = "medium" -> 5
      [] credibility_level = "high" -> 3
      [] OTHER -> 10

\* the URL and the level of the scored call
ScoredUrl == pf_in.source[1]

ScoredLevel == pf_in.source[2]

\* C16: for every source URL and credibility level, a domain on the high-credibility
\* list scores 3, a domain on the medium-credibility list scores 5, and any other
\* domain scores by the configured level: low 10, medium 5, high 3, otherwise 10.
SourceRiskFollowsTable ==
    pf_out # NoResult =>
        LET domain == UrlDomain[ScoredUrl]
        IN  /\ domain \in HIGH_CREDIBILITY_SOURCES => pf_out.source_risk = 3
            /\ domain \in MEDIUM_CREDIBILITY_SOURCES => pf_out.source_risk = 5
            /\ domain \notin HIGH_CREDIBILITY_SOURCES \cup MEDIUM_CREDIBILITY_SOURCES
                   => pf_out.source_risk = ConfiguredRisk(ScoredLevel)

\* C17 as stated: a source URL whose domain cannot be extracted scores 10 whatever
\* credibility level is configured.
NoDomainScoresHighestRisk ==
    (pf_out # NoResult /\ UrlDomain[ScoredUrl] = "") => pf_out.source_risk = 10

\* C17: a source URL whose domain cannot be extracted is scored without an error: its
\* domain is empty, it is on neither list, and the source risk is the one of the
\* configured level: 10 for low, 5 for medium, 3 for high, 10 for any other level.
NoDomainScoresByLevel ==
    (pf_out # NoResult /\ UrlDomain[ScoredUrl] = "") =>
        /\ "" \notin HIGH_CREDIBILITY_SOURCES \cup MEDIUM_CREDIBILITY_SOURCES
        /\ pf_out.source_risk \in {3, 5, 10}
        /\ ScoredLevel = "low" => pf_out.source_risk = 10
        /\ ScoredLevel = "medium" => pf_out.source_risk = 5
        /\ ScoredLevel = "high" => pf_out.source_risk = 3
        /\ ScoredLevel \notin {"low", "medium", "high"} => pf_out.source_risk = 10

\* the unparseable URL of a source configured as high credibility has been scored 3
NoDomainHighScored ==
    /\ pf_out # NoResult
    /\ ScoredUrl = "u_bad"
    /\ ScoredLevel = "high"
    /\ pf_out.source_risk = 3

\* the text calculate_score looks for topic keywords in
ScoredText == Lower(Concat(pf_in.title, pf_in.content))

SportsMatches(text) == Cardinality({kw \in SPORTS_KEYWORDS : In(kw, text)})

HasControversy(text) == \E kw \in CONTROVERSY_KEYWORDS : In(kw, text)

\* C18: whenever a controversy keyword is present the sports part of topic_penalty is
\* 0, for every number of sports matches: the penalty is the entertainment penalty
\* alone, and it is 0 when no entertainment keyword matches.
ControversyLiftsSportsPenalty ==
    (pf_out # NoResult /\ HasControversy(ScoredText)) =>
        /\ pf_out.topic_penalty = 0 - entertainment_penalty(ScoredText)
        /\ entertainment_matches(ScoredText) = 0 => pf_out.topic_penalty = 0

\* a text with three sports terms and a controversy term has been scored with no penalty
SportsControversyScored ==
    /\ pf_out # NoResult
    /\ SportsMatches(ScoredText) >= 3
    /\ HasControversy(ScoredText)
    /\ pf_out.topic_penalty = 0

(***************************************************************************)
(* Scenario A: a quote of a minister with a percentage, low-credibility    *)
(* source                                                                  *)
(***************************************************************************)
\* status = PENDING if total >= threshold else REJECTED, for a given threshold
StatusUnder(total, threshold) == IF total >= threshold THEN PENDING ELSE REJECTED

\* the submission thresholds of the scenario
ScenarioThresholds == 0 .. DefaultSettings.submission_score_threshold

\* the scored content is long and complete, holds a direct quote, an attribution to a
\* minister and a percentage, the scored text (title and content) has no speculation,
\* noise, entertainment or sports term, and the source is of low credibility and on no list
ScenarioA ==
    /\ pf_out # NoResult
    /\ pf_in.content.len >= 300
    /\ pf_in.content.delims >= 3
    /\ Search("QUOTE", Lower(pf_in.content))
    /\ In("ministro", Lower(pf_in.content))
    /\ \E kw \in ATTRIBUTION_KEYWORDS : In(kw, Lower(pf_in.content))
    /\ Search("PERCENTAGE_PATTERN", Lower(pf_in.content))
    /\ \A term \in SPECULATION_KEYWORDS : ~In(term, ScoredText)
    /\ \A term \in noise_terms : ~In(term, ScoredText)
    /\ entertainment_matches(ScoredText) = 0
    /\ SportsMatches(ScoredText) = 0
    /\ ScoredLevel = "low"
    /\ UrlDomain[ScoredUrl] \notin HIGH_CREDIBILITY_SOURCES \cup MEDIUM_CREDIBILITY_SOURCES

\* the scores and the status of scenario A
ScenarioAScores ==
    /\ pf_out.content_quality = 20
    /\ pf_out.source_risk = 10
    /\ pf_out.topic_penalty = 0
    /\ pf_out.fact_checkable \in 27 .. 30
    /\ pf_out.total \in 55 .. 60
    /\ \A threshold \in ScenarioThresholds : StatusUnder(pf_out.total, threshold) = PENDING

\* C19 as stated: content of scenario A with no speculation, noise, entertainment or sports
\* term scores 20, 10, 0, a fact_checkable of 27 to 30 and a total of 55 to 60, and is
\* Pending for every threshold up to 38.
ScenarioAScoresAsStated == ScenarioA => ScenarioAScores

\* the scored text has no conditional pattern and no vague quantifier
NoConditionalNoVague ==
    /\ SumOver(ConditionalCount, ScoredText.clauses) = 0
    /\ \A term \in VAGUE_QUANTIFIERS : ~In(term, ScoredText)

\* C19: content of scenario A that also has no conditional pattern and no vague quantifier
\* scores content_quality 20, source_risk 10, topic_penalty 0, a fact_checkable of 27 to 30
\* and a total of 55 to 60, and is Pending for every submission threshold up to 38.
ScenarioAScoresWithoutConditional == (ScenarioA /\ NoConditionalNoVague) => ScenarioAScores

\* scenario A content with no conditional pattern and no vague quantifier has been scored
ScenarioAScored == ScenarioA /\ NoConditionalNoVague /\ pf_out.total = 60

(***************************************************************************)
(* The cached token                                                        *)
(***************************************************************************)
\* at most one token request is in flight
OneRequestInFlight == Cardinality(InFlight) <= 1

\* the callers that met a refresh which succeeded with a lifetime above the margin caused
\* one token request and got the token of that refresh
OneRequestPerRefresh ==
    burst.lifetime > Margin =>
        /\ burst.requests = 1
        /\ burst.tokens = {burst.token}

Decides ==
    \/ \E c \in Callers : callers[c] = "woken" /\ callers'[c] # "woken"
    \/ calls' # calls /\ \A c \in Callers : callers'[c] # "waiting" \/ callers[c] = "waiting"

\* a token request is sent in this step
Sends == \E c \in Callers : callers[c] # "requesting" /\ callers'[c] = "requesting"

\* a token is cached and more than 60 seconds remain before its expiry
MoreThanAMinuteLeft ==
    /\ _access_token # NoToken
    /\ _token_expires_at # NoTime
    /\ _token_expires_at - now > 60

\* C21: a caller that holds the lock returns the cached token, with no token request, only
\* when a token is cached and more than 60 seconds remain before its expiry; with no
\* token, no expiry, or 60 seconds or less remaining it sends a token request.
MarginBeforeExpiry ==
    [][Decides =>
           /\ Sends <=> ~MoreThanAMinuteLeft
           /\ ~Sends => /\ Cardinality({c \in Callers : callers'[c] = "requesting"}) = 0
                        /\ UNCHANGED <<_access_token, _token_expires_at, issued>>]_vars

\* two calls have returned and the second was served from the cache: one token was issued
\* and one request sent
ServedFromCache ==
    /\ calls = 2
    /\ Inside = {}
    /\ issued = 1
    /\ _access_token = 1
    /\ burst.requests = 1
    /\ burst.size = 1
    /\ burst.token = 1
    /\ now < _token_expires_at - 60

\* a token request fails in this step
Fails ==
    \E c \in Callers :
        callers[c] = "requesting" /\ callers'[c] # "requesting" /\ issued' = issued

\* C30: when a token request fails, the cached token and its expiry stay as they were and
\* the lock is released: it goes to the caller waiting longest or it is free, so no lock
\* is held with nobody to release it and a later call can send a fresh request.
FailureLeavesCacheAndLock ==
    [][Fails =>
           /\ UNCHANGED <<_access_token, _token_expires_at>>
           /\ _token_lock'.locked =>
                  \E c \in Callers : callers'[c] \in {"woken", "requesting"}
           /\ _token_lock.waiters = <<>> => ~_token_lock'.locked
           /\ _token_lock.waiters # <<>> =>
                  callers'[Head(_token_lock.waiters)] = "woken"]_vars

\* after a failed request a later call has taken the lock and sent a request of its own
RequestAfterFailure ==
    /\ issued = 0
    /\ calls = 2
    /\ Cardinality(InFlight) = 1
    /\ Cardinality(Inside) = 1
    /\ _token_lock.waiters = <<>>

(***************************************************************************)
(* Attribution points of a sentence                                        *)
(***************************************************************************)
\* the attribution patterns in the order they are tried, with their points
AttributionOrder ==
    << [patterns |-> {"PATTERN_ENTITY_VERB_QUE"}, points |-> 30],
       [patterns |-> {"PATTERN_SEGUNDO", "PATTERN_DE_ACORDO_COM"}, points |-> 25],
       [patterns |-> {"PATTERN_CONFORME"}, points |-> 20],
       [patterns |-> {"PATTERN_ENTITY_VERB_COLON"}, points |-> 25],
       [patterns |-> {"PATTERN_ENTITY_ACTION"}, points |-> 20] >>

\* the places in the order whose pattern matches the sentence
MatchingPlaces(sentence) ==
    { i \in DOMAIN AttributionOrder : \E p \in AttributionOrder[i].patterns : Matches(p, sentence) }

\* the points of the earliest place that matches, 0 when none does
EarliestAttribution(sentence) ==
    LET places == MatchingPlaces(sentence)
    IN  IF places = {} THEN 0
        ELSE AttributionOrder[CHOOSE i \in places : \A j \in places : i <= j].points

\* what the sentence scores apart from its attribution points
ScoreBesidesAttribution(sentence) ==
    checkability_score(sentence) - attribution_score(sentence)

\* C22: a scored sentence that is not noise has, on top of its other points, the
\* attribution points of the earliest matching pattern in the order entity+verb+que 30,
\* segundo / de acordo com 25, conforme 20, entity+verb+colon 25, entity+action 20,
\* nothing for the later ones, and 0 when no pattern matches
AttributionIsFirstMatch ==
    (sn_in # NoInput /\ sn_out # NoResult /\ ~Matches("NOISE_PATTERNS", sn_in.sentence))
        => sn_out.score = ScoreBesidesAttribution(sn_in.sentence)
                          + EarliestAttribution(sn_in.sentence)

\* a scored sentence where conforme (20) comes before entity+verb+colon (25) and entity+action
ConformeBeforeColonScored ==
    /\ sn_in # NoInput
    /\ sn_out # NoResult
    /\ sn_in.sentence = {"c_conforme", "c_colon", "c_action"}
    /\ MatchingPlaces(sn_in.sentence) = {3, 4, 5}
    /\ sn_out.score = ScoreBesidesAttribution(sn_in.sentence) + 20

(***************************************************************************)
(* Base topic score and named entities of the fact-checkable sub-score     *)
(***************************************************************************)
MatchesFamily(keywords, text) == \E kw \in keywords : In(kw, text)

\* the topic families of the text
TopicFamilies(text) ==
    { F \in {"government", "political", "social", "health", "science"} :
        MatchesFamily(CASE F = "government" -> GOVERNMENT_ENTITIES
                        [] F = "political" -> POLITICAL_KEYWORDS
                        [] F = "social" -> SOCIAL_RELEVANCE_KEYWORDS
                        [] F = "health" -> HEALTH_KEYWORDS
                        [] F = "science" -> SCIENCE_KEYWORDS, text) }

\* 12 for government, else 10 for political, else 8 for social, health or science, else 0
HighestTier(text) ==
    IF "government" \in TopicFamilies(text) THEN 12
    ELSE IF "political" \in TopicFamilies(text) THEN 10
    ELSE IF TopicFamilies(text) # {} THEN 8
    ELSE 0

\* the unclamped fact-checkable points apart from the base topic score
ModifiersOnly(text) == fact_checkable_raw(text) - base_score(text)

\* C23: the base topic score inside the fact-checkable sub-score is the highest tier
\* among the topic families that match (government 12, political 10, social, health
\* or science 8, none 0), never their sum: the sub-score is the modifiers plus that
\* one tier, clamped to 0..30
BaseIsHighestTier ==
    pf_out # NoResult =>
        pf_out.fact_checkable =
            Max(0, Min(ModifiersOnly(ScoredText) + HighestTier(ScoredText), 30))

\* a text of three topic families, government among them, scored on the government tier
SeveralFamiliesScored ==
    /\ pf_out # NoResult
    /\ Cardinality(TopicFamilies(ScoredText)) >= 3
    /\ HighestTier(ScoredText) = 12
    /\ ModifiersOnly(ScoredText) + 12 < 30
    /\ pf_out.fact_checkable = ModifiersOnly(ScoredText) + 12

\* the capitalised multi-word sequences of title and content as they were passed
NamedEntities == FindProperNouns(Concat(pf_in.title, pf_in.content))

\* C24: the fact-checkable sub-score of title plus content includes 4 points before
\* clamping when the text passed holds at least 2 capitalised multi-word sequences,
\* and no such points with fewer
NamedEntityBonusApplied ==
    pf_out # NoResult =>
        pf_out.fact_checkable =
            Max(0, Min(fact_checkable_raw(ScoredText)
                       + (IF NamedEntities >= 2 THEN 4 ELSE 0), 30))

(***************************************************************************)
(* Entertainment penalty and government funding                            *)
(***************************************************************************)
\* a government-funding term together with an amount in reais or in dollars
FundingContext(text) ==
    /\ \E term \in gov_money_terms : In(term, text)
    /\ Search("CURRENCY_BRL_PATTERN", text) \/ Search("CURRENCY_USD_PATTERN", text)

\* 35 for three or more matches, 30 for two, 25 for one; nothing for one or two
\* matches in a funding context
TieredEntertainment(text) ==
    LET matches == entertainment_matches(text)
    IN  IF matches >= 3 THEN 35
        ELSE IF matches = 0 \/ FundingContext(text) THEN 0
        ELSE IF matches = 2 THEN 30
        ELSE 25

\* C25: the entertainment part of topic_penalty is -35 for 3 or more entertainment
\* matches, -30 for 2 and -25 for 1, and with at most 2 matches it is 0 when a
\* government-funding term occurs together with a BRL or USD amount; topic_penalty is
\* that part plus the sports part, not below -40
EntertainmentPenaltyTiers ==
    pf_out # NoResult =>
        pf_out.topic_penalty =
            Max(0 - TieredEntertainment(ScoredText) - sports_penalty(ScoredText), -40)

(***************************************************************************)
(* Claims with attribution                                                 *)
(***************************************************************************)
\* the matches in the text: a pattern and the sentence it matches in
MatchesInText(text) ==
    { m \in (1..Len(patterns)) \X (1..Len(text)) : Matches(patterns[m[1]], text[m[2]]) }

\* the matches whose claim text has at least 20 characters
LongMatches(text) ==
    { m \in MatchesInText(text) : ClaimLen(ClaimGroup(patterns[m[1]], text[m[2]])) >= 20 }

\* the claims returned for a match
ReturnedFor(m, text, claims) ==
    { k \in 1..Len(claims) :
        /\ claims[k].pattern = patterns[m[1]]
        /\ claims[k].claim = ClaimGroup(patterns[m[1]], text[m[2]]) }

\* C26: extract_claims_with_attribution returns a claim for every match of every
\* attribution pattern in the text whose claim text has at least 20 characters, as many
\* claims as there are such matches (a pattern matching in several sentences and
\* several patterns matching in one sentence each count), and no claim with a claim
\* text under 20 characters
EveryLongMatchReturned ==
    ca_out # NoResult =>
        /\ \A m \in LongMatches(ca_in.text) : ReturnedFor(m, ca_in.text, ca_out.claims) # {}
        /\ Len(ca_out.claims) = Cardinality(LongMatches(ca_in.text))
        /\ \A k \in 1..Len(ca_out.claims) : ClaimLen(ca_out.claims[k].claim) >= 20

\* a text of one sentence written twice, where two patterns match on one span: four
\* claims, the two of the second sentence equal to the two of the first
SameSpanTwiceReturned ==
    /\ ca_in # NoInput
    /\ ca_out # NoResult
    /\ ca_in.text = << {"c_anun_que", "c_pct"}, {"c_anun_que", "c_pct"} >>
    /\ Len(ca_out.claims) = 4
    /\ ca_out.claims[1] = ca_out.claims[2]
    /\ ca_out.claims[3] = ca_out.claims[4]
    /\ ca_out.claims[1].pattern = "PATTERN_ENTITY_VERB_QUE"
    /\ ca_out.claims[3].pattern = "PATTERN_ENTITY_ACTION"

\* ---------------------------------------------------------------------------------------
\* Scheduled runs, submission and persistence
\* ---------------------------------------------------------------------------------------

\* the step of the scheduled job in which extract_all_sources has returned and the flag is read
FlagRead == scheduled.pc = "extracting" /\ scheduled'.pc # "extracting"

\* the batch the scheduled job begins: the pending ids of the state, the first one in hand
BatchBegun ==
    /\ scheduled'.pc = "submitting"
    /\ IF PendingIds = <<>> THEN submission'[ScheduledJob].pc = "idle"
       ELSE /\ submission'[ScheduledJob].pc = "check"
            /\ <<submission'[ScheduledJob].content_id>> \o submission'[ScheduledJob].queue
                   = PendingIds

\* nothing of the submission is touched and the job is over
NothingSubmitted ==
    /\ scheduled'.pc = "idle"
    /\ UNCHANGED <<submission, api_calls, verification_requests, extracted_content>>

\* C27: a scheduled run submits the pending content exactly when the flag of the settings
\* instance, as the latest toggle left it, is true when its extraction has finished; a run
\* that reads false creates no request and changes no status, and the task of the job does
\* nothing outside a run that read true
AutoSubmitFollowsFlag ==
    [][ /\ FlagRead => IF settings.auto_submit_enabled THEN BatchBegun ELSE NothingSubmitted
        /\ submission'[ScheduledJob] # submission[ScheduledJob]
              => \/ scheduled.pc = "submitting"
                 \/ FlagRead /\ settings.auto_submit_enabled ]_vars

\* the flag was toggled away from its startup value and the run that read it is calling
\* AletheiaFact for a pending article
ToggledRunSubmits ==
    /\ settings.auto_submit_enabled # DefaultSettings.auto_submit_enabled
    /\ scheduled.pc = "submitting"
    /\ submission[ScheduledJob].pc = "call"
    /\ extracted_content[submission[ScheduledJob].content_id].status = PENDING

\* the places of verification_requests that were created for a content id
RequestsFor(content_id) ==
    { i \in DOMAIN verification_requests : verification_requests[i] = content_id }

\* C28: whatever the interleaving of the submit_content calls, at most one verification
\* request is created for a content id, and a call that finds the item already Submitted
\* makes no downstream call and leaves the item and the counters of its source unchanged
SubmittedAtMostOnce ==
    /\ [](\A content_id \in DOMAIN extracted_content :
              Cardinality(RequestsFor(content_id)) <= 1)
    /\ [][\A t \in DOMAIN submission :
              submission[t].pc = "check"
              /\ submission'[t] # submission[t]
              /\ submission[t].content_id \in DOMAIN extracted_content
              /\ extracted_content[submission[t].content_id].status = SUBMITTED
              => /\ submission'[t].pc \in {"idle", "check"}
                 /\ UNCHANGED <<api_calls, verification_requests, extracted_content,
                                source_configuration>>]_vars

\* the articles of a source that are in the collection
StoredOf(source) ==
    { i \in DOMAIN extracted_content : extracted_content[i].sourceName = source }

\* the runs over a source that have counted an article and not yet added it to the source
CountingRuns(source) ==
    { t \in DOMAIN extraction : /\ extraction[t].pc = "stats"
                                /\ extraction[t].entry.sourceName = source
                                /\ extraction[t].extracted_count = 1 }

\* the hash of the article task t is about to insert is in the collection already
HashStored(t) ==
    \E i \in DOMAIN extracted_content :
        extracted_content[i].contentHash = extraction[t].content_dict.contentHash

\* C29: whatever runs overlap, no two articles of the collection share a contentHash; an
\* insert of a hash that is stored leaves the collection as it is and returns False, and it
\* is counted neither by the run nor, afterwards, in the totalExtracted of the source
NoDuplicateStoredOrCounted ==
    /\ [](\A i, j \in DOMAIN extracted_content :
              i # j => extracted_content[i].contentHash # extracted_content[j].contentHash)
    /\ [](\A source \in SourceNames :
              /\ \A t \in DOMAIN extraction : extraction[t].extracted_count \in {0, 1}
              /\ source_configuration[source].totalExtracted
                     + Cardinality(CountingRuns(source)) = Cardinality(StoredOf(source)))
    /\ [][\A t \in DOMAIN extraction :
              extraction[t].pc = "save" /\ extraction'[t].pc # "save" /\ HashStored(t)
              => /\ extracted_content' = extracted_content
                 /\ extraction'[t].saved = <<FALSE>>
                 /\ extraction'[t].extracted_count = extraction[t].extracted_count]_vars

\* two overlapping runs extracted the same entry: one inserted the article and added it to
\* the source, the insert of the other was refused and its run counted nothing
SecondInsertRefused ==
    \E t \in DOMAIN extraction :
        /\ extraction[t].pc = "stats"
        /\ extraction[t].saved = <<FALSE>>
        /\ extraction[t].extracted_count = 0
        /\ Len(extracted_content) = 1
        /\ source_configuration[extraction[t].entry.sourceName].totalExtracted = 1
====
